---------------------------- MODULE Spec2Model ----------------------------
(***************************************************************************)
(* Settlement core of stable-pay: the on-ramp ledger row (payments) driven *)
(* by Stripe payment_intent.* webhooks and by getPaymentStatus, and the    *)
(* off-ramp ledger rows (cashouts) driven by requestCashout and payout.*   *)
(* webhooks.  Every await of a handler is a separate step, so that two     *)
(* handlers interleave exactly where the Node event loop lets them.        *)
(*                                                                         *)
(* One payment intent is modelled: every on-ramp handler is keyed by the   *)
(* payment intent id and touches that row only.                            *)
(***************************************************************************)
EXTENDS Integers, Sequences, FiniteSets, TLC

\* ------------------------------------------------------------- bounds
\* Deliveries of payment_intent.succeeded that the model follows.
MaxDeliveries == 2
\* getPaymentStatus calls that the model follows.
MaxPolls == 1
\* requestCashout calls that the model follows.
MaxCashoutCalls == 2
\* On-chain deposits to the offramp wallet whose hashes can be submitted.
MaxDeposits == 2
\* Fields in which a submitted request body differs from a well-formed one.
MaxFaults == 1
\* Calls of executePayroll
MaxExecutions == 2
\* Events in the receipt of a payroll transaction
MaxLogs == 2

\* ---------------------------------------------------- program constants
\* transferUSDTFromOfframp(to, amount, maxRetries = 3)
maxRetries == 3

NoHash == 0
NoMsg == ""

VARIABLES
  stripePI,     \* status of the payment intent at Stripe ("none": not created)
  emitted,      \* payment_intent.* event types Stripe has emitted for it
  payment,      \* the payments row keyed by the payment intent id
  broadcasts,   \* transfers broadcast from the offramp wallet for the payment
  hs,           \* runs of handlePaymentIntentSucceeded
  polls,        \* runs of getPaymentStatus
  cashouts,     \* the cashouts table: row id -> row, in insertion order
  payouts,      \* the payouts created at Stripe: payout id -> payout
  connectedTransfers, \* platform -> connected account transfers made
  rcs,          \* runs of requestCashout
  lastReq,      \* the request received last, as it was sent
  lastAnswer,   \* what the services it called answered while it was served
  lastResp,     \* the response to it, when it was answered at once
  payrolls,     \* the payrolls table: row id -> row, in insertion order
  eps,          \* runs of executePayroll
  xfer          \* the call of transferUSDTFromOfframp being followed

onVars == <<stripePI, emitted, payment, broadcasts, hs, polls>>
offVars == <<cashouts, payouts, connectedTransfers, rcs>>
\* What neither flow's ledger handlers touch.
logVars == <<lastReq, lastAnswer, lastResp>>
payVars == <<payrolls, eps>>
restVars == <<logVars, payVars, xfer>>
vars == <<stripePI, emitted, payment, broadcasts, hs, polls,
          cashouts, payouts, connectedTransfers, rcs,
          lastReq, lastAnswer, lastResp, payrolls, eps, xfer>>

Deliveries == 1..MaxDeliveries
Polls == 1..MaxPolls
Calls == 1..MaxCashoutCalls
Deposits == 1..MaxDeposits
Executions == 1..MaxExecutions

\* ------------------------------------------------------------ ledger
NoPayment ==
  [status |-> "none", tx_hash |-> NoHash, block_number |-> 0,
   error_message |-> NoMsg, completed_at |-> FALSE,
   amount_usdt |-> 0, exchange_rate |-> 0]

\* createPayment: the row inserted for a new payment intent.
createPayment(amount_usdt, exchange_rate) ==
  [status |-> "pending", tx_hash |-> NoHash, block_number |-> 0,
   error_message |-> NoMsg, completed_at |-> FALSE,
   amount_usdt |-> amount_usdt, exchange_rate |-> exchange_rate]

Has(u, f) == f \in DOMAIN u

Min(S) == CHOOSE x \in S : \A y \in S : x <= y
Max(S) == CHOOSE x \in S : \A y \in S : y <= x
Abs(x) == IF x < 0 THEN -x ELSE x

\* updatePayment(id, updates): only the fields present in updates are
\* written; completed_at is written when given or when status is completed.
updatePayment(row, u) ==
  [status        |-> IF Has(u, "status") THEN u.status ELSE row.status,
   tx_hash       |-> IF Has(u, "tx_hash") THEN u.tx_hash ELSE row.tx_hash,
   block_number  |-> IF Has(u, "block_number") THEN u.block_number
                     ELSE row.block_number,
   error_message |-> IF Has(u, "error_message") THEN u.error_message
                     ELSE row.error_message,
   completed_at  |-> IF Has(u, "completed_at") THEN u.completed_at
                     ELSE IF Has(u, "status") /\ u.status = "completed"
                          THEN TRUE ELSE row.completed_at,
   amount_usdt   |-> row.amount_usdt,
   exchange_rate |-> row.exchange_rate]

\* ------------------------------------------------- amounts as doubles
\* Token amounts are counted in thousandths of a token.  parseFloat, the
\* subtraction and the comparison with 0.01 are computed as JavaScript
\* computes them, in IEEE-754 binary64: a double is kept as its binary
\* expansion, IntBits digits before the binary point and FracBits after.
Milli == 1000
IntBits == 8
FracBits == 64
Significand == 53
Width == IntBits + FracBits

\* The literal 0.01 of the amount checks.
Tolerance == 10

\* What is left of r / Milli after j binary digits of the fraction.
RECURSIVE Rem(_, _)
Rem(r, j) == IF j = 0 THEN r ELSE (2 * Rem(r, j - 1)) % Milli

\* The k binary digits of the natural number n.
RECURSIVE IntDigits(_, _)
IntDigits(n, k) ==
  IF k = 0 THEN <<>> ELSE Append(IntDigits(n \div 2, k - 1), n % 2)

\* The first k binary digits of the fraction r / Milli.
RECURSIVE FracDigits(_, _)
FracDigits(r, k) ==
  IF k = 0 THEN <<>>
  ELSE <<IF 2 * r >= Milli THEN 1 ELSE 0>> \o FracDigits((2 * r) % Milli, k - 1)

\* The binary expansion of m / Milli, cut after FracBits digits.
Expansion(m) ==
  IntDigits(m \div Milli, IntBits) \o FracDigits(m % Milli, FracBits)

\* Position of the leading 1, 0 for zero.
Lead(b) ==
  IF \E i \in 1..Width : b[i] = 1
    THEN Min({i \in 1..Width : b[i] = 1}) ELSE 0

\* b plus one unit at position p: a digit changes when every digit
\* between it and p is 1.
Inc(b, p) ==
  [i \in 1..Width |->
     IF i <= p /\ \A j \in (i + 1)..p : b[j] = 1 THEN 1 - b[i] ELSE b[i]]

\* b with the digits after position p cleared.
Truncate(b, p) == [i \in 1..Width |-> IF i <= p THEN b[i] ELSE 0]

\* Round to nearest, ties to even, at Significand significant digits;
\* sticky tells that the exact value has digits beyond Width.
RoundToDouble(b, sticky) ==
  LET lead == Lead(b)
      p == lead + Significand - 1
  IN IF lead = 0 \/ p >= Width THEN b
     ELSE LET guard == b[p + 1] = 1
              rest == sticky \/ \E i \in (p + 2)..Width : b[i] = 1
          IN IF guard /\ (rest \/ b[p] = 1)
               THEN Inc(Truncate(b, p), p) ELSE Truncate(b, p)

\* parseFloat of the decimal string of m thousandths.
parseFloat(m) == RoundToDouble(Expansion(m), Rem(m % Milli, FracBits) # 0)

Less(a, b) ==
  \E i \in 1..Width : a[i] < b[i] /\ \A j \in 1..(i - 1) : a[j] = b[j]

\* a - b for a >= b: a digit borrows when the digits after it are less
\* in a than in b.
Minus(a, b) ==
  [i \in 1..Width |->
     LET borrow == \E j \in (i + 1)..Width :
                     a[j] < b[j] /\ \A k \in (i + 1)..(j - 1) : a[k] = b[k]
     IN (a[i] - b[i] - (IF borrow THEN 1 ELSE 0) + 2) % 2]

\* Math.abs(x - y) on doubles.
AbsDiff(x, y) ==
  RoundToDouble(IF Less(x, y) THEN Minus(y, x) ELSE Minus(x, y), FALSE)

\* The amounts that requests, ledger rows and transfers carry.
RequestedAmount == 100000
ChainAmounts == {100000, 100004, 100010, 100020}
Amounts == {0, RequestedAmount} \cup ChainAmounts

\* The double of every amount.
Double == [m \in Amounts \cup {Tolerance} |-> parseFloat(m)]

\* Math.abs(observed - expected) > 0.01, for every pair of amounts.
ExceedsTolerance ==
  [o \in Amounts, e \in Amounts |->
     Less(Double[Tolerance], AbsDiff(Double[o], Double[e]))]

\* A comparison that lets every amount pass.
AmountMismatch_Never(observed, expected) == FALSE

\* "Allow small tolerance for rounding differences".
AmountMismatch(observed, expected) == ExceedsTolerance[observed, expected]

\* ----------------------------------------------------------- addresses
\* Addresses, in the checksummed form ethers returns and in lower case.
EmployeeAddress == "0xAbC1"
OtherAddress == "0xDeF2"
OfframpAddress == "0x0dC5"
EmployerAddress == "0xE4a7"

toLowerCase(s) ==
  CASE s = "0xAbC1" -> "0xabc1"
    [] s = "0xDeF2" -> "0xdef2"
    [] s = "0x0dC5" -> "0x0dc5"
    [] s = "0xE4a7" -> "0xe4a7"
    [] OTHER -> s

\* ethers.isAddress: a checksummed or an all-lower-case address.
isValidAddress(address) ==
  address \in {"0xAbC1", "0xabc1", "0xDeF2", "0xdef2", "0x0dC5", "0x0dc5",
               "0xE4a7", "0xe4a7"}

getOfframpAddress == OfframpAddress

\* --------------------------------------------------- chain: the transfer
\* An error message is a sequence of tokens: a digit or a decimal point is
\* one token, a fixed phrase of the program or of the node is one token.
DigitTokens == <<"0", "1", "2", "3", "4", "5", "6", "7", "8", "9">>

Digit(d) == DigitTokens[d + 1]

RECURSIVE Digits(_)
Digits(n) ==
  IF n < 10 THEN <<Digit(n)>> ELSE Digits(n \div 10) \o <<Digit(n % 10)>>

\* The fraction of a token amount, without its trailing zeros and never
\* empty.
Fraction(f) ==
  IF f = 0 THEN <<"0">>
  ELSE IF f % 100 = 0 THEN <<Digit(f \div 100)>>
  ELSE IF f % 10 = 0 THEN <<Digit(f \div 100), Digit((f \div 10) % 10)>>
  ELSE <<Digit(f \div 100), Digit((f \div 10) % 10), Digit(f % 10)>>

\* ethers.formatUnits of an amount held in thousandths of a token.
formatUnits(value) ==
  Digits(value \div Milli) \o <<".">> \o Fraction(value % Milli)

\* String.prototype.includes.
Includes(message, text) ==
  \E i \in 1..(Len(message) - Len(text) + 1) :
    SubSeq(message, i, i + Len(text) - 1) = text

RetryableTexts ==
  {<<"5", "0", "2">>, <<"5", "0", "3">>, <<"Bad Gateway">>,
   <<"Service Unavailable">>, <<"timeout">>, <<"ECONNRESET">>,
   <<"ETIMEDOUT">>}

RetryableCodes == {"SERVER_ERROR", "TIMEOUT"}

isRetryableError(error) ==
  \/ \E text \in RetryableTexts : Includes(error.message, text)
  \/ error.code \in RetryableCodes

\* Errors carry where they were raised: by the balance check of the
\* program, by the address argument, or by the node.
NoError == [message |-> <<>>, code |-> "", origin |-> "none"]

NotConfigured ==
  [message |-> <<"Offramp wallet not configured">>, code |-> "",
   origin |-> "configuration"]

InsufficientBalance(amountWei, balance) ==
  [message |-> <<"Insufficient balance in offramp wallet. Required: ">>
               \o formatUnits(amountWei) \o <<" USDT, Available: ">>
               \o formatUnits(balance) \o <<" USDT">>,
   code |-> "", origin |-> "balance"]

InvalidAddress ==
  [message |-> <<"invalid address">>, code |-> "INVALID_ARGUMENT",
   origin |-> "address"]

BadGateway ==
  [message |-> <<"5", "0", "2", " ", "Bad Gateway">>, code |-> "",
   origin |-> "node"]

Reverted ==
  [message |-> <<"execution reverted">>, code |-> "CALL_EXCEPTION",
   origin |-> "node"]

NodeErrors ==
  {BadGateway, Reverted,
   [message |-> <<"server response ", "5", "0", "3">>,
    code |-> "SERVER_ERROR", origin |-> "node"],
   [message |-> <<"request ", "timeout">>, code |-> "TIMEOUT",
    origin |-> "node"]}

PermanentOrigins == {"balance", "address"}

\* The text of a message.
RECURSIVE Join(_)
Join(message) ==
  IF message = <<>> THEN "" ELSE Head(message) \o Join(Tail(message))

\* An error that does not tell its cause.
TransferError_NoCause(message) == "Failed to transfer USDT from offramp wallet"

\* `Failed to transfer USDT from offramp wallet: ${error.message}`
TransferError(message) ==
  "Failed to transfer USDT from offramp wallet: " \o message

\* What an attempt ends with in the runs of the handlers: the transfer is
\* sent, the node is unreachable or the node refuses the transaction.
AttemptOutcomes == {NoError, BadGateway, Reverted}

\* The retry loop of transferUSDTFromOfframp over the outcomes of its
\* attempts: the first attempt that succeeds returns the transaction, a
\* retryable error is retried while attempt < maxRetries, any other error
\* is rethrown.  The result is <<attempts made, "ok" | "thrown", the
\* message thrown>>.
RECURSIVE TransferLoop(_, _, _)
TransferLoop(outs, attempt, limit) ==
  IF attempt > limit
    THEN <<limit, "thrown",
           "Failed to transfer USDT from offramp wallet after "
           \o Join(Digits(limit)) \o " attempts: "
           \o Join(outs[limit].message)>>
  ELSE IF outs[attempt] = NoError THEN <<attempt, "ok", "">>
  ELSE IF isRetryableError(outs[attempt]) /\ attempt < limit
       THEN TransferLoop(outs, attempt + 1, limit)
  ELSE <<attempt, "thrown", TransferError(Join(outs[attempt].message))>>

transferUSDTFromOfframp(outs) == TransferLoop(outs, 1, maxRetries)

ReceiptOutcomes == {"success", "reverted", "null", "threw"}

\* A check that takes every receipt for a success.
ReceiptCheck_AcceptAll(rc) ==
  IF rc = "threw"
    THEN "Failed to confirm transaction: Failed to wait for transaction: Error: timeout"
  ELSE ""

\* waitForTransaction and "if (!receipt || receipt.status !== 1)": the
\* message of the error thrown, "" when the receipt is a success.
ReceiptCheck(rc) ==
  IF rc = "threw"
    THEN "Failed to confirm transaction: Failed to wait for transaction: Error: timeout"
  ELSE IF rc = "null" THEN "Transaction failed on-chain. Status: undefined"
  ELSE IF rc # "success" THEN "Transaction failed on-chain. Status: 0"
  ELSE ""

\* ------------------------------------------------------ request bodies
\* The bodies of S and those with one more field replaced as F says, n
\* times over.
RECURSIVE WithFaults(_, _, _)
WithFaults(S, F, n) ==
  IF n = 0 THEN S
  ELSE WithFaults(S \cup {[r EXCEPT ![f[1]] = f[2]] : r \in S, f \in F},
                  F, n - 1)

\* What logs[0] of a receipt decodes to when it is no Transfer event.
NoTransfer == [from |-> "", to |-> "", amount |-> 0]

\* No lookup was made.
NotAsked == [status |-> "none", log |-> NoTransfer]

\* Nothing was answered yet.
NoResponse == [answered |-> FALSE]

\* ------------------------------------------------------------- Init
IdleHandler ==
  [pc |-> "idle", tx |-> NoHash, err |-> NoMsg, outcome |-> "none",
   resp |-> NoResponse]
IdlePoll == [pc |-> "idle", status |-> "none", tx_hash |-> NoHash,
             newStatus |-> "none"]

InitOnRamp ==
  /\ stripePI = "none"
  /\ emitted = {}
  /\ payment = NoPayment
  /\ broadcasts = 0
  /\ hs = [h \in Deliveries |-> IdleHandler]
  /\ polls = [k \in Polls |-> IdlePoll]

\* ------------------------------------------- createPaymentIntentHandler
\* Fiat amounts and rates are in thousandths, token amounts in millionths.
Micro == Milli * Milli

\* The purchase limit, in millionths of a token.
MaxPurchase == 5 * Micro

\* A call that threw, and one that was not reached.
Throws == -1
Unasked == -2

\* The bodies a client sends to buy for 2 or for 12 units of fiat.
WellFormedIntents ==
  [walletAddress : {EmployeeAddress}, amount : {2000, 12000},
   currency : {"usd"}]

IntentFaults ==
  {<<"walletAddress", "">>, <<"walletAddress", "0xzz">>, <<"amount", 0>>,
   <<"amount", -1000>>, <<"currency", "">>, <<"currency", "gbp">>}

Intents == WithFaults(WellFormedIntents, IntentFaults, MaxFaults)

\* "Validation": the error of the first check that fails.
ValidateIntent(b) ==
  IF b.walletAddress = "" \/ ~isValidAddress(b.walletAddress)
    THEN "Invalid wallet address"
  ELSE IF b.amount <= 0 THEN "Invalid amount"
  ELSE IF b.currency = "" \/ toLowerCase(b.currency) \notin {"usd", "eur"}
    THEN "Invalid currency. Supported: usd, eur"
  ELSE ""

\* The two doubles that are no finite number; the finite ones of the
\* model lie strictly between them.
NaN == -1073741824
Infinity == 1073741823

\* 1 / x for a rate in thousandths, in thousandths.
Invert(x) ==
  IF x = NaN THEN NaN
  ELSE IF x = 0 THEN Infinity
  ELSE IF x < 0 THEN -(Micro \div (-x))
  ELSE Micro \div x

\* x * y for a positive finite x.
Times(x, y) == IF y \in {NaN, Infinity} THEN y ELSE x * y

\* x < y and x > y of doubles: false when either is NaN.
LessThan(x, y) == x # NaN /\ y # NaN /\ x < y
GreaterThan(x, y) == LessThan(y, x)

\* A lookup that fails leaves the rate at one.
ExchangeRate_NoFallback(usdtToFiatRate) ==
  IF usdtToFiatRate = Throws THEN 0 ELSE Invert(usdtToFiatRate)

\* "Get exchange rate (Fiat -> USDT)": 1.0 unless the lookup returns a
\* rate, which is inverted whatever it is.
ExchangeRate(usdtToFiatRate) ==
  IF usdtToFiatRate = Throws THEN Milli ELSE Invert(usdtToFiatRate)

\* The limit is never exceeded.
ExceedsLimit_Never(amountUSDT) == FALSE

\* "Validate maximum amount: 5 USDT limit".
ExceedsLimit(amountUSDT) == GreaterThan(amountUSDT, MaxPurchase)

\* What getExchangeRate, getOfframpBalance and stripe.paymentIntents.create
\* answer; the rate is a power of two, so that the token amount has at
\* most six decimals and toFixed(6) writes it in full.
RateAnswers == {Throws, 2000}
BalanceAnswers == {Throws, 1 * Micro}
StripeAnswers == {"ok", "throws"}

\* The answers a run for body b can get: a service is asked only when the
\* run reaches its call.
IntentAnswersOver(b, rates) ==
  IF ValidateIntent(b) # ""
    THEN {[rate |-> Unasked, balance |-> Unasked, stripe |-> "unasked"]}
  ELSE UNION {
    IF ExceedsLimit(Times(b.amount, ExchangeRate(rate)))
      THEN {[rate |-> rate, balance |-> Unasked, stripe |-> "unasked"]}
    ELSE UNION {
      IF balance # Throws
         /\ LessThan(balance, Times(b.amount, ExchangeRate(rate)))
        THEN {[rate |-> rate, balance |-> balance, stripe |-> "unasked"]}
      ELSE {[rate |-> rate, balance |-> balance, stripe |-> st] :
              st \in StripeAnswers} : balance \in BalanceAnswers}
    : rate \in rates}

IntentAnswers(b) == IntentAnswersOver(b, RateAnswers)

\* The response of the run for body b under answers a.
IntentResponse(b, a) ==
  LET exchangeRate == ExchangeRate(a.rate)
      amountUSDT == Times(b.amount, exchangeRate)
      refused(error, amount) ==
        [status |-> 400, error |-> error, amountUSDT |-> amount,
         exchangeRate |-> 0]
  IN IF ValidateIntent(b) # "" THEN refused(ValidateIntent(b), 0)
     ELSE IF ExceedsLimit(amountUSDT)
       THEN refused("Maximum purchase limit is 5 USDT", amountUSDT)
     ELSE IF a.balance # Throws /\ LessThan(a.balance, amountUSDT)
       THEN refused("Insufficient balance in offramp wallet", amountUSDT)
     ELSE IF a.stripe = "throws"
       THEN [status |-> 500, error |-> "Failed to create payment intent",
             amountUSDT |-> 0, exchangeRate |-> 0]
     ELSE [status |-> 200, error |-> "", amountUSDT |-> amountUSDT,
           exchangeRate |-> exchangeRate]

\* The run for body b: when no check fails the payment intent is created
\* at Stripe and the pending row inserted.
CreateIntentWith(b, a) ==
  LET response == IntentResponse(b, a) IN
  /\ IF response.status = 200
       THEN /\ stripePI = "none"
            /\ stripePI' = "requires_payment_method"
            /\ payment' = createPayment(response.amountUSDT,
                                        response.exchangeRate)
       ELSE UNCHANGED <<stripePI, payment>>
  /\ UNCHANGED <<emitted, broadcasts, hs, polls, offVars>>

\* The runs that change the state, nothing being kept: the one for the
\* payment intent of the model.
CreatePaymentIntentHandler ==
  /\ stripePI = "none"
  /\ \E b \in Intents : \E a \in IntentAnswers(b) :
       CreateIntentWith(b, a) /\ UNCHANGED restVars

\* The same, the request, the answers and the response being kept.
CreatePaymentIntentLogged ==
  \E b \in Intents : \E a \in IntentAnswers(b) :
    /\ CreateIntentWith(b, a)
    /\ lastReq' = b
    /\ lastAnswer' = a
    /\ lastResp' = IntentResponse(b, a)
    /\ UNCHANGED <<payVars, xfer>>

\* A run in which no check fails and Stripe creates the payment intent,
\* the database then refusing the insert of createPayment: the outer catch
\* answers 500 and the intent stays at Stripe.
CreateIntentInsertFailsLogged ==
  \E b \in Intents : \E a \in IntentAnswers(b) :
    /\ IntentResponse(b, a).status = 200
    /\ stripePI = "none"
    /\ stripePI' = "requires_payment_method"
    /\ lastReq' = b
    /\ lastAnswer' = a
    /\ lastResp' = [status |-> 500,
                    error |-> "Failed to create payment: Error: connection terminated",
                    amountUSDT |-> 0, exchangeRate |-> 0]
    /\ UNCHANGED <<payment, emitted, broadcasts, hs, polls, offVars, payVars,
                   xfer>>

\* ------------------------------------------------------ getExchangeRate
\* No row of exchange_rates for the pair is younger than ten minutes.
NoRow == [found |-> FALSE, rate |-> 0]

\* What getCachedRate finds: nothing, or the youngest fresh row, whose rate
\* is whatever the table holds.
CachedRows ==
  {NoRow} \cup {[found |-> TRUE, rate |-> r] : r \in {920, 0, -2000, NaN}}

\* What the request to CoinGecko comes to: no answer, an error status, or
\* a body whose tether.<currency> is a number or is absent.
Absent == -3
NotFetched == [reached |-> FALSE, status |-> 0, rate |-> Absent]
FetchAnswers ==
  {NotFetched, [reached |-> TRUE, status |-> 429, rate |-> Absent]}
    \cup {[reached |-> TRUE, status |-> 200, rate |-> r] :
             r \in {Absent, 0, -2000, 920}}

\* fetchUSDTtoVND, fetchUSDTtoUSD, fetchUSDTtoEUR: the rate of the body, or
\* a throw when the request fails, the status is not ok or the rate is
\* falsy or not positive.
fetchRate(f) ==
  IF ~f.reached \/ f.status \notin 200..299 THEN Throws
  ELSE IF f.rate \in {Absent, 0, NaN} \/ f.rate <= 0 THEN Throws
  ELSE f.rate

\* getExchangeRate(from, to): the cached rate when there is one, else the
\* fetched one; when that throws, 1.0 for USDT/USD and a throw for every
\* other pair, cached being null where the catch block reads it.
getExchangeRate(from, to, cached, fetched) ==
  LET fromLower == toLowerCase(from)
      toLower == toLowerCase(to)
      rate == IF fromLower = "usdt" /\ toLower \in {"vnd", "usd", "eur"}
                THEN fetchRate(fetched) ELSE Throws
  IN IF cached.found THEN cached.rate
     ELSE IF rate # Throws THEN rate
     ELSE IF fromLower = "usdt" /\ toLower = "usd" THEN Milli
     ELSE Throws

\* The calls of getExchangeRate: the pair, and what the table and
\* CoinGecko hold for it; CoinGecko is asked only when no row is found.
RateCalls ==
  {[from |-> fr, to |-> t, cached |-> c,
    fetched |-> IF c.found THEN NotFetched ELSE f] :
     fr \in {"usdt", "usd"}, t \in {"usd", "eur", "vnd", "gbp"},
     c \in CachedRows, f \in FetchAnswers}

\* A call of getExchangeRate, the pair, what it found and what it returned
\* being kept.
GetExchangeRateLogged ==
  \E q \in RateCalls :
    /\ lastReq' = [from |-> q.from, to |-> q.to]
    /\ lastAnswer' = [cached |-> q.cached, fetched |-> q.fetched]
    /\ lastResp' =
         [returned |-> getExchangeRate(q.from, q.to, q.cached, q.fetched)]
    /\ UNCHANGED <<onVars, offVars, payVars, xfer>>

\* A run of createPaymentIntentHandler whose rate is what getExchangeRate
\* returns for the currency of the body.
CreateIntentLookupLogged ==
  \E b \in Intents \cup [walletAddress : {EmployeeAddress},
                          amount : {2000}, currency : {"eur"}] :
    \E q \in {r \in RateCalls : r.from = "usdt" /\ r.to = b.currency} :
      \E a \in IntentAnswersOver(b,
                 {getExchangeRate(q.from, q.to, q.cached, q.fetched)}) :
        /\ CreateIntentWith(b, a)
        /\ lastReq' = b
        /\ lastAnswer' = a
        /\ lastResp' = IntentResponse(b, a)
        /\ UNCHANGED <<payVars, xfer>>

\* ------------------------------------------------- Stripe (external)
\* The customer confirms the payment intent with a card.
StripeConfirm ==
  /\ stripePI = "requires_payment_method"
  /\ stripePI' = "processing"
  /\ UNCHANGED <<emitted, payment, broadcasts, hs, polls, offVars, restVars>>

\* The charge succeeds: payment_intent.succeeded is emitted.
StripeSucceeds ==
  /\ stripePI = "processing"
  /\ stripePI' = "succeeded"
  /\ emitted' = emitted \cup {"succeeded"}
  /\ UNCHANGED <<payment, broadcasts, hs, polls, offVars, restVars>>

\* The charge is declined: payment_intent.payment_failed is emitted and the
\* intent waits for another payment method.
StripeDeclines ==
  /\ stripePI = "processing"
  /\ stripePI' = "requires_payment_method"
  /\ emitted' = emitted \cup {"payment_failed"}
  /\ UNCHANGED <<payment, broadcasts, hs, polls, offVars, restVars>>

\* The intent is canceled before it succeeds.
StripeCancels ==
  /\ stripePI = "requires_payment_method"
  /\ stripePI' = "canceled"
  /\ emitted' = emitted \cup {"canceled"}
  /\ UNCHANGED <<payment, broadcasts, hs, polls, offVars, restVars>>

\* ---------------------------------------------------- handleStripeWebhook
ValidSignature == "t=1,v1=5257a869"
StripeSignatures == {"", "t=1,v1=00000000", ValidSignature}

\* verifyWebhookSignature: the message of the error thrown, none when
\* constructEvent returns the event.
verifyWebhookSignature(signature) ==
  IF signature = ValidSignature THEN ""
  ELSE "Stripe webhook error: No signatures found matching the expected signature for payload"

\* The three responses of handleStripeWebhook.
MissingSignature ==
  [status |-> 400, received |-> FALSE,
   error |-> "Missing stripe-signature header"]
Received == [status |-> 200, received |-> TRUE, error |-> ""]
\* A catch block that answers with a server error.
ReceivedWithError_ServerError(message) ==
  [status |-> 500, received |-> FALSE, error |-> message]
ReceivedWithError(message) ==
  [status |-> 200, received |-> TRUE, error |-> message]

\* A delivery that reaches no handler: the header is missing, or the
\* signature does not verify and the catch block answers.
HandleStripeWebhookUnverified ==
  \E signature \in StripeSignatures :
    /\ signature = "" \/ verifyWebhookSignature(signature) # ""
    /\ lastReq' = [stripeSignature |-> signature]
    /\ lastAnswer' = NotAsked
    /\ lastResp' = IF signature = "" THEN MissingSignature
                   ELSE ReceivedWithError(verifyWebhookSignature(signature))
    /\ UNCHANGED <<onVars, offVars, payVars, xfer>>

\* ------------------------------------------ handlePaymentIntentSucceeded
InFlight(h) == hs[h].pc \notin {"idle", "done"}

\* A gate that only recognises a settlement still in progress.
AlreadyProcessed_OnlyProcessing(row) == row.status = "processing"

\* The idempotency gate: "Check if already processed".
AlreadyProcessed(row) == row.status = "completed" \/ row.tx_hash # NoHash

\* A delivery of payment_intent.succeeded reaches the handler, which reads
\* the row and applies the gate.
HRead(h) ==
  /\ "succeeded" \in emitted
  /\ hs[h].pc = "idle"
  /\ \A g \in Deliveries : g < h => hs[g].pc # "idle"
  /\ hs' = [hs EXCEPT ![h] =
       IF payment.status = "none"
         THEN [@ EXCEPT !.pc = "done", !.outcome = "notfound",
                        !.resp = Received]
       ELSE IF AlreadyProcessed(payment)
         THEN [@ EXCEPT !.pc = "done", !.outcome = "noop", !.resp = Received]
       ELSE [@ EXCEPT !.pc = "processing"]]
  /\ UNCHANGED <<stripePI, emitted, payment, broadcasts, polls, offVars, restVars>>

\* "Update status to processing".
HSetProcessing(h) ==
  /\ hs[h].pc = "processing"
  /\ payment' = updatePayment(payment, [status |-> "processing"])
  /\ hs' = [hs EXCEPT ![h].pc = "transfer"]
  /\ UNCHANGED <<stripePI, emitted, broadcasts, polls, offVars, restVars>>

\* transferUSDTFromOfframp: either a transaction is broadcast, or the call
\* throws and the handler wraps the error.
HTransferWith(h, outs) ==
  LET r == transferUSDTFromOfframp(outs) IN
  /\ hs[h].pc = "transfer"
  /\ IF r[2] = "ok"
       THEN /\ broadcasts' = broadcasts + 1
            /\ hs' = [hs EXCEPT ![h].pc = "wait", ![h].tx = broadcasts + 1]
       ELSE /\ broadcasts' = broadcasts
            /\ hs' = [hs EXCEPT ![h].pc = "catch",
                 ![h].err = "Failed to create USDT transfer transaction: "
                            \o r[3]]
  /\ UNCHANGED <<stripePI, emitted, payment, polls, offVars>>

HTransfer(h) ==
  \E outs \in [1..maxRetries -> AttemptOutcomes] :
    HTransferWith(h, outs) /\ UNCHANGED restVars

\* The same, the delivery and the attempts made being kept.
HTransferLogged(h) ==
  \E outs \in [1..maxRetries -> AttemptOutcomes] :
    /\ HTransferWith(h, outs)
    /\ lastReq' = [delivery |-> h]
    /\ lastAnswer' =
         [attempts |-> SubSeq(outs, 1, transferUSDTFromOfframp(outs)[1])]
    /\ lastResp' = NoResponse
    /\ UNCHANGED <<payVars, xfer>>

\* waitForTransaction and the receipt check.
HWaitWith(h, rc) ==
  /\ hs[h].pc = "wait"
  /\ hs' = [hs EXCEPT ![h] =
       IF ReceiptCheck(rc) = "" THEN [@ EXCEPT !.pc = "complete"]
       ELSE [@ EXCEPT !.pc = "catch", !.err = ReceiptCheck(rc)]]
  /\ UNCHANGED <<stripePI, emitted, payment, broadcasts, polls, offVars>>

HWait(h) ==
  \E rc \in ReceiptOutcomes : HWaitWith(h, rc) /\ UNCHANGED restVars

\* The same, the delivery and the receipt being kept.
HWaitLogged(h) ==
  \E rc \in ReceiptOutcomes :
    /\ HWaitWith(h, rc)
    /\ lastReq' = [delivery |-> h]
    /\ lastAnswer' = [receipt |-> rc]
    /\ lastResp' = NoResponse
    /\ UNCHANGED <<payVars, xfer>>

\* "Update payment with transaction hash".
HComplete(h) ==
  /\ hs[h].pc = "complete"
  /\ payment' = updatePayment(payment,
       [tx_hash |-> hs[h].tx, block_number |-> hs[h].tx,
        status |-> "completed", completed_at |-> TRUE])
  /\ hs' = [hs EXCEPT ![h].pc = "done", ![h].outcome = "completed",
                      ![h].resp = Received]
  /\ UNCHANGED <<stripePI, emitted, broadcasts, polls, offVars, restVars>>

\* The catch block: the row is read again and marked failed, then the error
\* is rethrown to handleStripeWebhook, whose catch block answers.
HCatch(h) ==
  /\ hs[h].pc = "catch"
  /\ payment' = IF payment.status = "none" THEN payment
                ELSE updatePayment(payment,
                       [status |-> "failed", error_message |-> hs[h].err])
  /\ hs' = [hs EXCEPT ![h].pc = "done", ![h].outcome = "threw",
                      ![h].resp = ReceivedWithError(hs[h].err)]
  /\ UNCHANGED <<stripePI, emitted, broadcasts, polls, offVars, restVars>>

\* What updatePayment and getPaymentByPaymentIntentId throw when the
\* database refuses the statement.
LedgerError == "Failed to update payment: Error: connection terminated"

\* "Update status to processing", the database refusing the update: the
\* row is left as it was and the error goes to the catch block.
HSetProcessingFails(h) ==
  /\ hs[h].pc = "processing"
  /\ hs' = [hs EXCEPT ![h].pc = "catch", ![h].err = LedgerError]
  /\ UNCHANGED <<stripePI, emitted, payment, broadcasts, polls, offVars,
                 restVars>>

\* "Update payment with transaction hash", the database refusing the
\* update.
HCompleteFails(h) ==
  /\ hs[h].pc = "complete"
  /\ hs' = [hs EXCEPT ![h].pc = "catch", ![h].err = LedgerError]
  /\ UNCHANGED <<stripePI, emitted, payment, broadcasts, polls, offVars,
                 restVars>>

\* The catch block, the database refusing its read or its update: the
\* inner catch logs the refusal and the first error is rethrown.
HCatchFails(h) ==
  /\ hs[h].pc = "catch"
  /\ hs' = [hs EXCEPT ![h].pc = "done", ![h].outcome = "threw",
                      ![h].resp = ReceivedWithError(hs[h].err)]
  /\ UNCHANGED <<stripePI, emitted, payment, broadcasts, polls, offVars,
                 restVars>>

\* ------------------- handlePaymentIntentFailed / handlePaymentIntentCanceled
HandlePaymentIntentFailed ==
  /\ "payment_failed" \in emitted
  /\ payment.status # "none"
  /\ payment' = updatePayment(payment,
       [status |-> "failed", error_message |-> "Stripe payment failed"])
  /\ UNCHANGED <<stripePI, emitted, broadcasts, hs, polls, offVars, restVars>>

HandlePaymentIntentCanceled ==
  /\ "canceled" \in emitted
  /\ payment.status # "none"
  /\ payment' = updatePayment(payment,
       [status |-> "canceled", error_message |-> "Payment intent was canceled"])
  /\ UNCHANGED <<stripePI, emitted, broadcasts, hs, polls, offVars, restVars>>

\* ------------------------------------------------------ getPaymentStatus
\* The status the poll derives from Stripe's status and the row it read.
NewStatus(stripeStatus, row) ==
  IF stripeStatus = "succeeded"
    THEN (IF row.tx_hash # NoHash THEN "completed" ELSE "processing")
  ELSE IF stripeStatus = "canceled" THEN "canceled"
  ELSE IF stripeStatus = "requires_payment_method" THEN "failed"
  ELSE "pending"

\* "Get payment from database".
PollRead(k) ==
  /\ polls[k].pc = "idle"
  /\ \A j \in Polls : j < k => polls[j].pc # "idle"
  /\ payment.status # "none"
  /\ polls' = [polls EXCEPT ![k] =
       [pc |-> "stripe", status |-> payment.status,
        tx_hash |-> payment.tx_hash, newStatus |-> payment.status]]
  /\ UNCHANGED <<stripePI, emitted, payment, broadcasts, hs, offVars, restVars>>

\* "Get latest status from Stripe": the retrieve call returns the intent's
\* status, or throws and the database status is returned.
PollStripe(k) ==
  /\ polls[k].pc = "stripe"
  /\ \/ polls' = [polls EXCEPT ![k].pc = "done"]
     \/ LET new == IF stripePI # polls[k].status
                     THEN NewStatus(stripePI, polls[k])
                     ELSE polls[k].status
        IN polls' = [polls EXCEPT
             ![k].pc = IF new # polls[k].status THEN "update" ELSE "done",
             ![k].newStatus = new]
  /\ UNCHANGED <<stripePI, emitted, payment, broadcasts, hs, offVars, restVars>>

\* "Update payment status if changed".
PollUpdate(k) ==
  /\ polls[k].pc = "update"
  /\ payment' = updatePayment(payment, [status |-> polls[k].newStatus])
  /\ polls' = [polls EXCEPT ![k].pc = "done"]
  /\ UNCHANGED <<stripePI, emitted, broadcasts, hs, offVars, restVars>>

\* =================================================================
\* Off-ramp
\* =================================================================
\* createCashout: the row requestCashout inserts.
\* A payout as stripe.payouts.create returns it.
NewPayout ==
  [state |-> "pending", events |-> {}, delivered |-> {},
   failure_code |-> "", failure_message |-> ""]

\* What Stripe reports of a payout that failed; either field may be absent.
PayoutFailures ==
  {[failure_code |-> "", failure_message |-> ""],
   [failure_code |-> "account_closed",
    failure_message |-> "The bank account has been closed."]}

createCashout(employeeAddress, amount, txHash) ==
  [employee_address |-> toLowerCase(employeeAddress), amount_usdt |-> amount,
   tx_hash_onchain |-> txHash, status |-> "pending_transfer",
   payout_id_stripe |-> 0, error_message |-> NoMsg, completed_at |-> FALSE]

\* An update that does not write error_message.
updateCashout_KeepsMessage(row, u) ==
  [row EXCEPT
     !.status = IF Has(u, "status") THEN u.status ELSE @,
     !.payout_id_stripe = IF Has(u, "payout_id_stripe")
                            THEN u.payout_id_stripe ELSE @,
     !.completed_at = IF Has(u, "completed_at") THEN u.completed_at
                      ELSE IF Has(u, "status") /\ u.status = "paid"
                           THEN TRUE ELSE @]

\* updateCashout(id, updates): only the fields present in updates are
\* written; completed_at is written when given or when status is paid.
updateCashout(row, u) ==
  [employee_address |-> row.employee_address,
   amount_usdt      |-> row.amount_usdt,
   tx_hash_onchain  |-> row.tx_hash_onchain,
   status           |-> IF Has(u, "status") THEN u.status ELSE row.status,
   payout_id_stripe |-> IF Has(u, "payout_id_stripe") THEN u.payout_id_stripe
                        ELSE row.payout_id_stripe,
   error_message    |-> IF Has(u, "error_message") THEN u.error_message
                        ELSE row.error_message,
   completed_at     |-> IF Has(u, "completed_at") THEN u.completed_at
                        ELSE IF Has(u, "status") /\ u.status = "paid"
                             THEN TRUE ELSE row.completed_at]

\* A duplicate lookup that passes over failed rows.
getCashoutByTxHash_SkipFailed(rows, txHash) ==
  LET m == {i \in DOMAIN rows : /\ rows[i].tx_hash_onchain = txHash
                                /\ rows[i].status # "failed"}
  IN IF m = {} THEN 0 ELSE Min(m)

\* SELECT * FROM cashouts WHERE tx_hash_onchain = ? LIMIT 1: the id of the
\* first matching row, 0 when there is none.
getCashoutByTxHash(rows, txHash) ==
  LET m == {i \in DOMAIN rows : rows[i].tx_hash_onchain = txHash}
  IN IF m = {} THEN 0 ELSE Min(m)

\* A lookup that falls back on the first row of the table.
getCashoutByPayoutId_OrFirst(rows, payoutId) ==
  LET m == {i \in DOMAIN rows : rows[i].payout_id_stripe = payoutId}
  IN IF m # {} THEN Min(m) ELSE IF rows = <<>> THEN 0 ELSE 1

\* SELECT * FROM cashouts WHERE payout_id_stripe = ? LIMIT 1.
getCashoutByPayoutId(rows, payoutId) ==
  LET m == {i \in DOMAIN rows : rows[i].payout_id_stripe = payoutId}
  IN IF m = {} THEN 0 ELSE Min(m)

\* -------------------------------------------------- the request body
\* A signature is kept as what ethers.verifyMessage recovers from it and
\* the message it was sent with; a message as its text, the amount and the
\* address it states.
NoMessage == [text |-> "", amount |-> 0, address |-> ""]
Hello == [text |-> "hello", amount |-> 0, address |-> ""]

createCashoutMessage(address, amount) ==
  [text |-> "I request cashout", amount |-> amount, address |-> address]

\* ethers.verifyMessage: the signer's address, "" when it throws.
verifyMessage(message, signature) ==
  CASE signature = "sig:0xAbC1" -> "0xAbC1"
    [] signature = "sig:0xDeF2" -> "0xDeF2"
    [] OTHER -> ""

\* A check that takes every signature for the employee's.
verifySignature_AcceptAll(message, signature, expectedAddress) == TRUE

verifySignature(message, signature, expectedAddress) ==
  LET recoveredAddress == verifyMessage(message, signature)
  IN /\ recoveredAddress # ""
     /\ toLowerCase(recoveredAddress) = toLowerCase(expectedAddress)

validateCashoutMessage(message, address, amount) ==
  /\ message.text = "I request cashout"
  /\ message.amount = amount
  /\ toLowerCase(message.address) = toLowerCase(address)

NoRequest ==
  [employeeAddress |-> "", amount |-> 0, currency |-> "", bankAccountId |-> "",
   connectedAccountId |-> "", signature |-> "", message |-> NoMessage,
   txHash |-> NoHash]

\* The bodies the employee's client sends for a deposit of
\* RequestedAmount.
WellFormedRequests ==
  [employeeAddress : {"0xabc1", "0xAbC1"},
   amount : {RequestedAmount},
   currency : {"usd"},
   bankAccountId : {"ba_1"},
   connectedAccountId : {"", "acct_1"},
   signature : {"sig:0xAbC1"},
   message : {createCashoutMessage(EmployeeAddress, RequestedAmount)},
   txHash : Deposits]

\* What a field of a body may hold instead.
Faults ==
  {<<"employeeAddress", "0xzz">>, <<"amount", 0>>, <<"currency", "gbp">>,
   <<"bankAccountId", "">>, <<"signature", "">>, <<"signature", "garbage">>,
   <<"signature", "sig:0xDeF2">>, <<"message", NoMessage>>,
   <<"message", Hello>>,
   <<"message", createCashoutMessage(OtherAddress, RequestedAmount)>>,
   <<"txHash", NoHash>>}

\* The request bodies the model submits.
Requests == WithFaults(WellFormedRequests, Faults, MaxFaults)

\* ------------------------------------------------ chain: verification
Transfers ==
  [from : {EmployeeAddress, OtherAddress},
   to : {OfframpAddress, OtherAddress},
   amount : ChainAmounts]

\* What the node answers for a hash: no receipt, a reverted or a
\* successful receipt with what logs[0] decodes to (NoTransfer: not a
\* Transfer event), or an RPC refusal.
ChainReceipts ==
  {[status |-> st, log |-> NoTransfer] :
     st \in {"null", "reverted", "rpc403", "success"}}
  \cup {[status |-> "success", log |-> t] : t \in Transfers}

Threw(message) == [error |-> message, from |-> "", to |-> "", amount |-> 0]

verifyTransferTransaction(rc) ==
  IF rc.status = "rpc403"
    THEN Threw("RPC endpoint returned 403 Forbidden")
  ELSE IF rc.status = "null"
    THEN Threw("Failed to verify transaction: Transaction not found")
  ELSE IF rc.status # "success"
    THEN Threw("Failed to verify transaction: Transaction failed")
  ELSE IF rc.log = NoTransfer
    THEN Threw("Failed to verify transaction: Transfer event not found")
  ELSE [error |-> "", from |-> rc.log.from, to |-> rc.log.to,
        amount |-> rc.log.amount]

\* error.message.includes('403') || error.message.includes('Forbidden')
Includes403(message) == message = "RPC endpoint returned 403 Forbidden"

\* The contract of getUSDTContract, and another contract that emits
\* events of the same shape.
usdtContractAddress == "0xusdt"
OtherContract == "0xfake"

\* The logs of a receipt: the contract that emitted each, the event its
\* topics and data encode, and the arguments of the event.
LogEntries ==
  {[address |-> a, event |-> e, from |-> EmployeeAddress,
    to |-> OfframpAddress, amount |-> RequestedAmount] :
     a \in {usdtContractAddress, OtherContract},
     e \in {"Transfer", "Approval"}}

\* The receipts the node holds, with all their logs.
Receipts ==
  {[status |-> st, logs |-> l] :
     st \in {"null", "reverted", "success"},
     l \in UNION {[1..k -> LogEntries] : k \in 0..MaxLogs}}

\* contract.interface.parseLog({topics, data}): the Transfer event the
\* topics and data encode, or null for an event that is not in usdtAbi; the
\* address of the log is not passed to it.
parseLog(log) ==
  IF log.event = "Transfer"
    THEN [from |-> log.from, to |-> log.to, amount |-> log.amount]
  ELSE NoTransfer

\* verifyTransferTransaction on a receipt with all its logs: logs[0] alone
\* is decoded, and reading it throws when the list is empty.
verifyTransferReceipt(receipt) ==
  IF receipt.status = "success" /\ receipt.logs = <<>>
    THEN Threw("Failed to verify transaction: Cannot read properties of undefined (reading 'topics')")
  ELSE verifyTransferTransaction(
         [status |-> receipt.status,
          log |-> IF receipt.status = "success"
                    THEN parseLog(receipt.logs[1]) ELSE NoTransfer])

\* ---------------------------------------------------------- requestCashout
IdleCall ==
  [pc |-> "idle", txHash |-> NoHash, connected |-> FALSE, cashoutId |-> 0,
   created |-> FALSE, transferred |-> FALSE, payoutCalls |-> 0, payoutId |-> 0,
   resp |-> "none", respStatus |-> "none", err |-> NoMsg,
   employeeAddress |-> "", amount |-> 0, lookups |-> 0, receipt |-> "none",
   transfer |-> NoTransfer, requested |-> 0, transferred_amount |-> 0]

InitOffRamp ==
  /\ cashouts = <<>>
  /\ payouts = <<>>
  /\ connectedTransfers = 0
  /\ rcs = [c \in Calls |-> IdleCall]
  /\ lastReq = NoRequest
  /\ lastAnswer = NotAsked
  /\ lastResp = NoResponse

\* The responses of the checks that precede the duplicate lookup; "ok"
\* when all of them pass.
Checks ==
  {"ok", "invalid_input", "invalid_signature", "invalid_message",
   "verification_failed", "rpc_error", "sender_mismatch",
   "recipient_mismatch", "amount_mismatch"}

CallInFlight(c) == rcs[c].pc \notin {"idle", "done"}

\* A validation that lets every body through.
Validation_AcceptAll(r) == <<"ok", "">>

\* "Validation": the response and the error of the first check that
\* fails.
Validation(r) ==
  IF r.employeeAddress = "" \/ ~isValidAddress(r.employeeAddress)
    THEN <<"invalid_input", "Invalid employee address">>
  ELSE IF r.amount <= 0
    THEN <<"invalid_input", "Invalid amount">>
  ELSE IF r.currency = "" \/ toLowerCase(r.currency) \notin {"usd", "eur"}
    THEN <<"invalid_input", "Invalid currency. Supported: usd, eur">>
  ELSE IF r.bankAccountId = ""
    THEN <<"invalid_input", "Bank account ID is required">>
  ELSE IF r.signature = "" \/ r.message = NoMessage
    THEN <<"invalid_input", "Signature and message are required">>
  ELSE IF r.txHash = NoHash
    THEN <<"invalid_input", "Transaction hash is required">>
  ELSE <<"ok", "">>

\* The checks made before the first await: validation, "Verify
\* signature" and "Validate message format".
SyncChecks(r) ==
  IF Validation(r)[1] # "ok" THEN Validation(r)
  ELSE IF ~verifySignature(r.message, r.signature, r.employeeAddress)
    THEN <<"invalid_signature", "Invalid signature">>
  ELSE IF ~validateCashoutMessage(r.message, r.employeeAddress, r.amount)
    THEN <<"invalid_message", "Invalid message format">>
  ELSE <<"ok", "">>

\* The run of requestCashout for body r up to the duplicate lookup, rc
\* being what the node answers for r.txHash; a run that returns keeps its
\* response only.
AdmitVerified(r, status, v) ==
  LET s == SyncChecks(r)
      returned == [IdleCall EXCEPT !.pc = "done"]
      looked == [returned EXCEPT !.lookups = 1, !.receipt = status]
  IN IF s[1] # "ok" THEN [returned EXCEPT !.resp = s[1], !.err = s[2]]
     ELSE IF v.error # ""
       THEN [looked EXCEPT
               !.resp = IF Includes403(v.error) THEN "rpc_error"
                        ELSE "verification_failed",
               !.err = v.error]
     ELSE IF toLowerCase(v.from) # toLowerCase(r.employeeAddress)
       THEN [looked EXCEPT !.resp = "sender_mismatch",
               !.err = "Transaction sender does not match employee address"]
     ELSE IF toLowerCase(v.to) # toLowerCase(getOfframpAddress)
       THEN [looked EXCEPT !.resp = "recipient_mismatch",
               !.err = "Transaction recipient is not the offramp wallet"]
     ELSE IF AmountMismatch(v.amount, r.amount)
       THEN [looked EXCEPT !.resp = "amount_mismatch",
               !.err = "Transaction amount does not match requested amount",
               !.requested = r.amount, !.transferred_amount = v.amount]
     ELSE [looked EXCEPT !.pc = "check", !.txHash = r.txHash,
             !.connected = r.connectedAccountId # "",
             !.employeeAddress = r.employeeAddress, !.amount = r.amount,
             !.transfer = [from |-> v.from, to |-> v.to, amount |-> v.amount]]

Admit(r, rc) == AdmitVerified(r, rc.status, verifyTransferTransaction(rc))

\* The node is asked about r.txHash only when the checks before the
\* lookup passed.
NodeAnswers(r) ==
  IF SyncChecks(r)[1] # "ok" THEN {NotAsked} ELSE ChainReceipts

\* A request with body r arrives and is validated and verified, rc being
\* the node's answer.
RCStartWith(c, r, rc) ==
  /\ rcs[c].pc = "idle"
  /\ \A d \in Calls : d < c => rcs[d].pc # "idle"
  /\ rcs' = [rcs EXCEPT ![c] = Admit(r, rc)]
  /\ UNCHANGED <<cashouts, payouts, connectedTransfers, onVars>>

RCStart(c) ==
  \E r \in Requests : \E rc \in NodeAnswers(r) :
    RCStartWith(c, r, rc) /\ UNCHANGED restVars

\* The same, the request, the node's answer and the response being kept.
RCStartLogged(c) ==
  \E r \in Requests : \E rc \in NodeAnswers(r) :
    /\ RCStartWith(c, r, rc)
    /\ lastReq' = r
    /\ lastAnswer' = rc
    /\ lastResp' = [resp |-> Admit(r, rc).resp, err |-> Admit(r, rc).err]
    /\ UNCHANGED <<payVars, xfer>>

\* A transaction hash is sent as a hex string, whose digits a to f may be
\* written in either case: the spelling h + MaxDeposits is the hash h in
\* upper case.  Transaction(h) is the transaction the node looks up for
\* the spelling h.
Spellings == 1..(2 * MaxDeposits)
Transaction(h) == ((h - 1) % MaxDeposits) + 1

\* A well-formed request arrives whose txHash is spelled in either case;
\* the request, the node's answer and the response are kept.
RCStartSpelled(c) ==
  \E b \in WellFormedRequests : \E h \in Spellings :
    \E rc \in ChainReceipts :
      LET r == [b EXCEPT !.txHash = h] IN
      /\ RCStartWith(c, r, rc)
      /\ lastReq' = r
      /\ lastAnswer' = rc
      /\ lastResp' = [resp |-> Admit(r, rc).resp, err |-> Admit(r, rc).err]
      /\ UNCHANGED <<payVars, xfer>>

\* A request whose checks before the lookup pass arrives, the node holding
\* receipt for its hash; the request, the receipt and the response are kept.
RCStartReceiptLogged(c) ==
  \E r \in WellFormedRequests : \E receipt \in Receipts :
    LET call == AdmitVerified(r, receipt.status,
                              verifyTransferReceipt(receipt)) IN
    /\ rcs[c].pc = "idle"
    /\ \A d \in Calls : d < c => rcs[d].pc # "idle"
    /\ rcs' = [rcs EXCEPT ![c] = call]
    /\ lastReq' = r
    /\ lastAnswer' = receipt
    /\ lastResp' = [resp |-> call.resp, err |-> call.err]
    /\ UNCHANGED <<cashouts, payouts, connectedTransfers, onVars, payVars,
                   xfer>>

\* The run without employeeAddress and transferInfo, which no step after
\* createCashout reads.
Forget(call) ==
  [call EXCEPT !.employeeAddress = "", !.transfer = NoTransfer,
               !.receipt = "none"]

\* "Check if cashout already exists for this transaction".
RCCheck(c) ==
  /\ rcs[c].pc = "check"
  /\ LET existing == getCashoutByTxHash(cashouts, rcs[c].txHash) IN
       rcs' = [rcs EXCEPT ![c] =
         IF existing # 0
           THEN Forget([@ EXCEPT !.pc = "done", !.resp = "existing",
                                 !.cashoutId = existing,
                                 !.respStatus = cashouts[existing].status])
           ELSE [@ EXCEPT !.pc = "create"]]
  /\ UNCHANGED <<cashouts, payouts, connectedTransfers, onVars, restVars>>

\* "Create cashout record".
RCCreate(c) ==
  /\ rcs[c].pc = "create"
  /\ cashouts' = Append(cashouts,
       createCashout(rcs[c].employeeAddress, rcs[c].amount, rcs[c].txHash))
  /\ rcs' = [rcs EXCEPT ![c] =
       Forget([@ EXCEPT !.cashoutId = Len(cashouts) + 1,
                        !.created = TRUE,
                        !.pc = IF rcs[c].connected THEN "transfer"
                               ELSE "payout"])]
  /\ UNCHANGED <<payouts, connectedTransfers, onVars, restVars>>

\* "Step 1: Transfer from platform account -> connected account".
RCTransfer(c) ==
  /\ rcs[c].pc = "transfer"
  /\ \/ /\ connectedTransfers' = connectedTransfers + 1
        /\ rcs' = [rcs EXCEPT ![c].pc = "payout", ![c].transferred = TRUE]
     \/ /\ connectedTransfers' = connectedTransfers
        /\ rcs' = [rcs EXCEPT ![c].pc = "failed",
                     ![c].err = "Failed to transfer to connected account"]
  /\ UNCHANGED <<cashouts, payouts, onVars, restVars>>

\* createPayout, after the settling delay on the connected-account path.
RCPayout(c) ==
  /\ rcs[c].pc = "payout"
  /\ \/ /\ payouts' = Append(payouts, NewPayout)
        /\ rcs' = [rcs EXCEPT ![c].pc = "update",
                     ![c].payoutCalls = @ + 1,
                     ![c].payoutId = Len(payouts) + 1]
     \/ /\ payouts' = payouts
        /\ rcs' = [rcs EXCEPT ![c].pc = "failed", ![c].payoutCalls = @ + 1,
                     ![c].err = "Failed to create payout"]
  /\ UNCHANGED <<cashouts, connectedTransfers, onVars, restVars>>

\* "Update cashout with payout ID", then the response.
RCUpdate(c) ==
  /\ rcs[c].pc = "update"
  /\ cashouts' = [cashouts EXCEPT ![rcs[c].cashoutId] =
       updateCashout(@, [payout_id_stripe |-> rcs[c].payoutId,
                         status |-> "pending_payout"])]
  /\ rcs' = [rcs EXCEPT ![c].pc = "done", ![c].resp = "pending_payout",
                        ![c].respStatus = "pending_payout"]
  /\ UNCHANGED <<payouts, connectedTransfers, onVars, restVars>>

\* "If Stripe payout fails, update cashout status", then the error response.
RCFailed(c) ==
  /\ rcs[c].pc = "failed"
  /\ cashouts' = [cashouts EXCEPT ![rcs[c].cashoutId] =
       updateCashout(@, [status |-> "failed", error_message |-> rcs[c].err])]
  /\ rcs' = [rcs EXCEPT ![c].pc = "done", ![c].resp = "error"]
  /\ UNCHANGED <<payouts, connectedTransfers, onVars, restVars>>

\* ------------------------------------------------- Stripe payouts (external)
PayoutIds == DOMAIN payouts


StripePayoutPaid(p) ==
  /\ payouts[p].state = "pending"
  /\ payouts' = [payouts EXCEPT ![p] =
       [@ EXCEPT !.state = "paid", !.events = @ \cup {"paid"}]]
  /\ UNCHANGED <<cashouts, connectedTransfers, rcs, onVars, restVars>>

\* A payout fails, also one the bank returns after it was reported paid.
StripePayoutFails(p) ==
  /\ payouts[p].state \in {"pending", "paid"}
  /\ \E f \in PayoutFailures :
       payouts' = [payouts EXCEPT ![p] =
         [@ EXCEPT !.state = "failed", !.events = @ \cup {"failed"},
                   !.failure_code = f.failure_code,
                   !.failure_message = f.failure_message]]
  /\ UNCHANGED <<cashouts, connectedTransfers, rcs, onVars, restVars>>

StripePayoutCanceled(p) ==
  /\ payouts[p].state = "pending"
  /\ payouts' = [payouts EXCEPT ![p] =
       [@ EXCEPT !.state = "canceled", !.events = @ \cup {"canceled"}]]
  /\ UNCHANGED <<cashouts, connectedTransfers, rcs, onVars, restVars>>

\* ------------------ handlePayoutPaid / handlePayoutFailed / handlePayoutCanceled
\* `Stripe payout failed: ${failureCode} - ${failureMessage}`
PayoutFailedMessage(payout) ==
  LET failureCode == IF payout.failure_code = "" THEN "unknown"
                     ELSE payout.failure_code
      failureMessage == IF payout.failure_message = "" THEN "Payout failed"
                        ELSE payout.failure_message
  IN "Stripe payout failed: " \o failureCode \o " - " \o failureMessage

\* The row of payout p changed by u; no row changes when none matches.
OnPayoutEvent(p, u) ==
  LET id == getCashoutByPayoutId(cashouts, p) IN
  cashouts' = IF id = 0 THEN cashouts
              ELSE [cashouts EXCEPT ![id] = updateCashout(@, u)]

HandlePayoutPaid(p) ==
  /\ "paid" \in payouts[p].events
  /\ OnPayoutEvent(p, [status |-> "paid", completed_at |-> TRUE])
  /\ UNCHANGED <<payouts, connectedTransfers, rcs, onVars, restVars>>

\* The one delivery of payout.paid that Stripe makes when the endpoint
\* acknowledges it, which handleStripeWebhook does whatever the handler
\* did.
HandlePayoutPaidOnce(p) ==
  /\ "paid" \in payouts[p].events \ payouts[p].delivered
  /\ OnPayoutEvent(p, [status |-> "paid", completed_at |-> TRUE])
  /\ payouts' = [payouts EXCEPT ![p].delivered = @ \cup {"paid"}]
  /\ UNCHANGED <<connectedTransfers, rcs, onVars, restVars>>

HandlePayoutFailed(p) ==
  /\ "failed" \in payouts[p].events
  /\ OnPayoutEvent(p, [status |-> "failed",
                       error_message |-> PayoutFailedMessage(payouts[p])])
  /\ UNCHANGED <<payouts, connectedTransfers, rcs, onVars, restVars>>

HandlePayoutCanceled(p) ==
  /\ "canceled" \in payouts[p].events
  /\ OnPayoutEvent(p, [status |-> "canceled",
                       error_message |-> "Stripe payout was canceled"])
  /\ UNCHANGED <<payouts, connectedTransfers, rcs, onVars, restVars>>

\* =================================================================
\* Payroll
\* =================================================================
BatchId == "pr_1"

\* The batch the employer prepares: A is owed 100.000 and B 100.020.
\* An amount is sent as a string: its form tells whether it is a plain
\* decimal, digits followed by letters ("12abc"), letters only or absent;
\* amount is what parseFloat reads of it.
PayrollEmployees ==
  <<[address |-> EmployeeAddress, amount |-> RequestedAmount,
     form |-> "decimal"],
    [address |-> OtherAddress, amount |-> RequestedAmount + 20,
     form |-> "decimal"]>>

\* createPayrolls: one pending row per employee, all under one payroll_id,
\* the addresses in lower case.
createPayrolls(employer, employees) ==
  [i \in DOMAIN employees |->
     [payroll_id |-> BatchId,
      employer_address |-> toLowerCase(employer),
      employee_address |-> toLowerCase(employees[i].address),
      amount_usdt |-> employees[i].amount,
      status |-> "pending", tx_hash |-> NoHash, block_number |-> 0]]

\* An update that reaches the first row of the batch only.
updatePayroll_FirstRow(rows, payrollId, u) ==
  [i \in DOMAIN rows |->
     IF rows[i].payroll_id # payrollId
        \/ \E j \in 1..(i - 1) : rows[j].payroll_id = payrollId
       THEN rows[i]
     ELSE [rows[i] EXCEPT
             !.tx_hash = IF Has(u, "tx_hash") THEN u.tx_hash ELSE @,
             !.status = IF Has(u, "status") THEN u.status ELSE @]]

\* updatePayroll(payrollId, updates): one UPDATE ... WHERE payroll_id,
\* which writes the fields given to every row of the batch.
updatePayroll(rows, payrollId, u) ==
  [i \in DOMAIN rows |->
     IF rows[i].payroll_id # payrollId THEN rows[i]
     ELSE [rows[i] EXCEPT
             !.tx_hash = IF Has(u, "tx_hash") THEN u.tx_hash ELSE @,
             !.block_number = IF Has(u, "block_number") THEN u.block_number
                              ELSE @,
             !.status = IF Has(u, "status") THEN u.status ELSE @]]

getPayrollsByPayrollId(rows, payrollId) ==
  SelectSeq(rows, LAMBDA row : row.payroll_id = payrollId)

\* The Transfer events a payroll transaction may carry, and what the node
\* answers for its hash; block 8 holds the transaction.
PayrollEvents ==
  [from : {EmployerAddress},
   to : {EmployeeAddress, toLowerCase(OtherAddress), OfframpAddress},
   amount : {RequestedAmount, RequestedAmount + 4, RequestedAmount + 20}]
  \cup {[from |-> OfframpAddress, to |-> EmployeeAddress,
         amount |-> RequestedAmount]}

\* The events of a transaction that pays the batch of the model.
PaidInFull ==
  [i \in DOMAIN PayrollEmployees |->
     [from |-> EmployerAddress, to |-> PayrollEmployees[i].address,
      amount |-> PayrollEmployees[i].amount]]

PayrollReceipts ==
  {[status |-> st, from |-> EmployerAddress, logs |-> <<>>, blockNumber |-> 0] :
     st \in {"null", "reverted"}}
  \cup {[status |-> "success", from |-> OtherAddress, logs |-> l,
         blockNumber |-> 8] : l \in {<<>>, PaidInFull}}
  \cup {[status |-> "success", from |-> EmployerAddress, logs |-> l,
         blockNumber |-> 8] :
          l \in UNION {[1..k -> PayrollEvents] : k \in 0..MaxLogs}}

\* A verification that does not look at the sender of the transaction.
verifyPayrollTransaction_AnySender(rc, expectedEmployer) ==
  LET threw(message) ==
        [error |-> message, transfers |-> <<>>, blockNumber |-> 0]
      transfers ==
        SelectSeq(rc.logs, LAMBDA l :
          toLowerCase(l.from) = toLowerCase(expectedEmployer))
  IN IF rc.status = "null"
       THEN threw("Failed to verify payroll transaction: Transaction not found")
     ELSE IF rc.status # "success"
       THEN threw("Failed to verify payroll transaction: Transaction failed")
     ELSE IF transfers = <<>>
       THEN threw("Failed to verify payroll transaction: No payroll transfers found in transaction")
     ELSE [error |-> "", transfers |-> transfers,
           blockNumber |-> rc.blockNumber]

\* verifyPayrollTransaction: the transfers of the transaction that leave
\* the employer, or the error thrown.
verifyPayrollTransaction(rc, expectedEmployer) ==
  LET threw(message) ==
        [error |-> message, transfers |-> <<>>, blockNumber |-> 0]
      transfers ==
        SelectSeq(rc.logs, LAMBDA l :
          toLowerCase(l.from) = toLowerCase(expectedEmployer))
  IN IF rc.status = "null"
       THEN threw("Failed to verify payroll transaction: Transaction not found")
     ELSE IF rc.status # "success"
       THEN threw("Failed to verify payroll transaction: Transaction failed")
     ELSE IF toLowerCase(rc.from) # toLowerCase(expectedEmployer)
       THEN threw("Failed to verify payroll transaction: Transaction sender does not match employer address")
     ELSE IF transfers = <<>>
       THEN threw("Failed to verify payroll transaction: No payroll transfers found in transaction")
     ELSE [error |-> "", transfers |-> transfers,
           blockNumber |-> rc.blockNumber]

\* expectedEmployees: for each address of the batch, the amount of the
\* last row that has it.
ExpectedEmployees(rows) ==
  [a \in {rows[i].employee_address : i \in DOMAIN rows} |->
     rows[Max({i \in DOMAIN rows : rows[i].employee_address = a})].amount_usdt]

\* A list of missing employees that is always empty.
Missing_None(expected, received) == {}

\* "missing": the expected addresses that received nothing.
Missing(expected, received) == {addr \in DOMAIN expected : addr \notin received}

PayrollResponse(status, error) ==
  [status |-> status, error |-> error, missing |-> {}, expected |-> 0,
   received |-> 0]

\* "Verify that all expected employees received their payments": the
\* response that ends the run, status 0 when the run goes on.
RECURSIVE Reconcile(_, _, _)
Reconcile(expected, transfers, received) ==
  IF transfers = <<>>
    THEN IF Cardinality(received) # Cardinality(DOMAIN expected)
           THEN [PayrollResponse(400, "Not all employees received payments")
                   EXCEPT !.missing = Missing(expected, received)]
           ELSE PayrollResponse(0, "")
  ELSE LET transfer == Head(transfers)
           to == toLowerCase(transfer.to)
       IN IF to \notin DOMAIN expected
            THEN Reconcile(expected, Tail(transfers), received)
          ELSE IF AmountMismatch(transfer.amount, expected[to])
            THEN [PayrollResponse(400, "Amount mismatch for employee")
                    EXCEPT !.expected = expected[to],
                           !.received = transfer.amount]
          ELSE Reconcile(expected, Tail(transfers), received \cup {to})

\* ----------------------------------------------------------- executePayroll
NoReceipt == [status |-> "none", from |-> "", logs |-> <<>>, blockNumber |-> 0]

IdleExecution ==
  [pc |-> "idle", payrollId |-> "", txHash |-> NoHash, blockNumber |-> 0,
   employer |-> "", expected |-> <<>>, rows |-> 0, remaining |-> 0,
   receipt |-> NoReceipt, verifiedBlockNumber |-> 0, err |-> NoMsg,
   resp |-> NoResponse]

InitPayroll ==
  /\ payrolls = <<>>
  /\ eps = [e \in Executions |-> IdleExecution]

\* The bodies of executePayroll: blockNumber 0 stands for none given.
ExecuteBodies ==
  WithFaults([payrollId : {BatchId}, txHash : {1, 2}, blockNumber : {0, 7}],
             {<<"payrollId", "">>, <<"payrollId", "pr_0">>,
              <<"txHash", NoHash>>}, MaxFaults)

\* ------------------------------------------------------------ preparePayroll
\* The bodies of preparePayroll: the batch of the model, its first entry
\* alone, and those with one field of one entry, or the employer, or the
\* list replaced.
EntryFaults ==
  {<<"address", "">>, <<"address", "0xzz">>,
   <<"address", EmployeeAddress>>, <<"address", toLowerCase(EmployeeAddress)>>,
   <<"address", EmployerAddress>>, <<"address", toLowerCase(EmployerAddress)>>,
   <<"amount", 0>>, <<"amount", -1000>>,
   <<"form", "prefix">>, <<"form", "letters">>, <<"form", "missing">>}

WellFormedBatches == {PayrollEmployees, SubSeq(PayrollEmployees, 1, 1)}

PrepareBodies ==
  LET batches ==
        WellFormedBatches \cup {<<>>}
        \cup {[l EXCEPT ![i] = [@ EXCEPT ![f[1]] = f[2]]] :
                <<l, i>> \in {<<PayrollEmployees, 1>>, <<PayrollEmployees, 2>>,
                              <<SubSeq(PayrollEmployees, 1, 1), 1>>},
                f \in EntryFaults}
  IN [employer_address : {EmployerAddress}, employees : batches]
     \cup [employer_address : {"", "0xzz"}, employees : WellFormedBatches]

\* The response that ends a run before the rows are created.
PrepareRefusal(status, error) ==
  [status |-> status, error |-> error, payrollId |-> "", employeeCount |-> 0]

Proceeds == PrepareRefusal(0, "")

\* A validation that looks for no duplicates.
EntryError_NoDuplicates(employer, employees, i) ==
  LET emp == employees[i] IN
  IF emp.address = "" \/ ~isValidAddress(emp.address)
    THEN PrepareRefusal(400, "Invalid employee address: " \o emp.address)
  ELSE IF toLowerCase(emp.address) = toLowerCase(employer)
    THEN PrepareRefusal(400,
           "Employee address cannot be same as employer address")
  ELSE IF emp.form = "missing" \/ (emp.form # "letters" /\ emp.amount <= 0)
    THEN PrepareRefusal(400, "Invalid amount for employee " \o emp.address)
  ELSE IF emp.form = "letters"
    THEN PrepareRefusal(400, "Amount must be a valid number for employee "
                             \o emp.address)
  ELSE IF emp.form # "decimal"
    THEN PrepareRefusal(500, "invalid FixedNumber string value")
  ELSE Proceeds

\* "Validate each employee entry": what the loop body does for entry i,
\* the entries before it having passed; ethers.parseUnits throws for a
\* string that is no plain decimal.
EntryError(employer, employees, i) ==
  LET emp == employees[i]
      normalizedAddress == toLowerCase(emp.address)
  IN IF emp.address = "" \/ ~isValidAddress(emp.address)
       THEN PrepareRefusal(400, "Invalid employee address: " \o emp.address)
     ELSE IF \E j \in 1..(i - 1) :
               toLowerCase(employees[j].address) = normalizedAddress
       THEN PrepareRefusal(400,
              "Duplicate employee address: " \o emp.address)
     ELSE IF normalizedAddress = toLowerCase(employer)
       THEN PrepareRefusal(400,
              "Employee address cannot be same as employer address")
     ELSE IF emp.form = "missing" \/ (emp.form # "letters" /\ emp.amount <= 0)
       THEN PrepareRefusal(400,
              "Invalid amount for employee " \o emp.address)
     ELSE IF emp.form = "letters"
       THEN PrepareRefusal(400, "Amount must be a valid number for employee "
                                \o emp.address)
     ELSE IF emp.form # "decimal"
       THEN PrepareRefusal(500, "invalid FixedNumber string value")
     ELSE Proceeds

\* The response of the first entry that fails, Proceeds when none does.
ValidateEmployees(employer, employees) ==
  LET failing == {i \in DOMAIN employees :
                    EntryError(employer, employees, i) # Proceeds}
  IN IF failing = {} THEN Proceeds
     ELSE EntryError(employer, employees, Min(failing))

RECURSIVE TotalAmount(_)
TotalAmount(employees) ==
  IF employees = <<>> THEN 0
  ELSE Head(employees).amount + TotalAmount(Tail(employees))

\* What contract.decimals() and getUSDTBalance answer: the balance is
\* unknown, one token or a thousand.
DecimalsAnswers == {"ok", "throws"}
EmployerBalances == {Throws, Milli, Milli * Milli}

PrepareAnswers(b) ==
  IF b.employer_address = "" \/ ~isValidAddress(b.employer_address)
     \/ b.employees = <<>>
    THEN {[decimals |-> "unasked", balance |-> Unasked]}
  ELSE IF ValidateEmployees(b.employer_address, b.employees) # Proceeds
    THEN {[decimals |-> d, balance |-> Unasked] : d \in DecimalsAnswers}
  ELSE {[decimals |-> "throws", balance |-> Unasked]}
       \cup {[decimals |-> "ok", balance |-> bal] : bal \in EmployerBalances}

\* The response of the run for body b under answers a.
PrepareResponse(b, a) ==
  IF b.employer_address = "" \/ ~isValidAddress(b.employer_address)
    THEN PrepareRefusal(400, "Invalid employer address")
  ELSE IF b.employees = <<>>
    THEN PrepareRefusal(400,
           "Employees array is required and cannot be empty")
  ELSE IF a.decimals = "throws"
    THEN PrepareRefusal(500, "Failed to prepare payroll")
  ELSE IF ValidateEmployees(b.employer_address, b.employees) # Proceeds
    THEN ValidateEmployees(b.employer_address, b.employees)
  ELSE IF a.balance # Throws /\ a.balance < TotalAmount(b.employees)
    THEN PrepareRefusal(400, "Insufficient balance")
  ELSE [status |-> 200, error |-> "", payrollId |-> BatchId,
        employeeCount |-> Len(b.employees)]

\* The run for body b: the rows are inserted when nothing refuses.
PrepareWith(b, a) ==
  IF PrepareResponse(b, a).status = 200
    THEN /\ payrolls = <<>>
         /\ payrolls' = createPayrolls(b.employer_address, b.employees)
    ELSE UNCHANGED payrolls

\* The run that creates the batch of the model, nothing being kept.
PreparePayroll ==
  /\ payrolls = <<>>
  /\ PrepareWith([employer_address |-> EmployerAddress,
                  employees |-> PayrollEmployees],
                 [decimals |-> "ok", balance |-> Throws])
  /\ UNCHANGED <<onVars, offVars, logVars, eps, xfer>>

\* Any run, the request, the answers and the response being kept.
PreparePayrollLogged ==
  \E b \in PrepareBodies : \E a \in PrepareAnswers(b) :
    /\ PrepareWith(b, a)
    /\ lastReq' = b
    /\ lastAnswer' = a
    /\ lastResp' = PrepareResponse(b, a)
    /\ UNCHANGED <<onVars, offVars, eps, xfer>>

\* A run that has answered keeps its response only.
Answer(response) == [IdleExecution EXCEPT !.pc = "done", !.resp = response]

\* The body is validated and "Get all payrolls in this batch" is read.
EPStart(e) ==
  /\ eps[e].pc = "idle"
  /\ \A d \in Executions : d < e => eps[d].pc # "idle"
  /\ \E b \in ExecuteBodies :
       LET found == getPayrollsByPayrollId(payrolls, b.payrollId) IN
       eps' = [eps EXCEPT ![e] =
         IF b.payrollId = ""
           THEN Answer(PayrollResponse(400, "payrollId is required"))
         ELSE IF b.txHash = NoHash
           THEN Answer(PayrollResponse(400, "txHash is required"))
         ELSE IF found = <<>>
           THEN Answer(PayrollResponse(404, "Payroll not found"))
         ELSE [IdleExecution EXCEPT
                 !.pc = "verify", !.payrollId = b.payrollId,
                 !.txHash = b.txHash, !.blockNumber = b.blockNumber,
                 !.employer = found[1].employer_address,
                 !.expected = ExpectedEmployees(found), !.rows = Len(found)]]
  /\ lastAnswer' = NoReceipt
  /\ UNCHANGED <<onVars, offVars, lastReq, lastResp, payrolls, xfer>>

\* "Verify transaction on-chain": the transaction is verified and
\* reconciled with the batch; an amount mismatch or a missing employee
\* ends the run, an error thrown by the verification leads to the catch
\* block.
EPVerify(e) ==
  /\ eps[e].pc = "verify"
  /\ \E rc \in PayrollReceipts :
       LET v == verifyPayrollTransaction(rc, eps[e].employer)
           r == Reconcile(eps[e].expected, v.transfers, {})
       IN /\ eps' = [eps EXCEPT ![e] =
               IF v.error # ""
                 THEN [@ EXCEPT !.pc = "failing", !.err = v.error,
                                !.remaining = eps[e].rows]
               ELSE IF r.status # 0 THEN Answer(r)
               ELSE [@ EXCEPT !.pc = "completing", !.receipt = rc,
                              !.verifiedBlockNumber = v.blockNumber,
                              !.remaining = eps[e].rows]]
          /\ lastAnswer' = rc
  /\ UNCHANGED <<onVars, offVars, lastReq, lastResp, payrolls, xfer>>

\* One of the updatePayroll calls of the run, which are as many as the
\* rows read; the response follows the last one.
EPUpdate(e) ==
  /\ eps[e].pc \in {"failing", "completing"}
  /\ LET run == eps[e]
         u == IF run.pc = "completing"
                THEN [tx_hash |-> run.txHash,
                      block_number |-> run.verifiedBlockNumber,
                      status |-> "completed"]
              ELSE IF run.blockNumber = 0
                THEN [tx_hash |-> run.txHash, status |-> "failed"]
              ELSE [tx_hash |-> run.txHash, block_number |-> run.blockNumber,
                    status |-> "failed"]
     IN /\ payrolls' = updatePayroll(payrolls, run.payrollId, u)
        /\ eps' = [eps EXCEPT ![e] =
             IF run.remaining > 1 THEN [@ EXCEPT !.remaining = @ - 1]
             ELSE IF run.pc = "completing"
               THEN Answer(PayrollResponse(200, ""))
             ELSE Answer(PayrollResponse(400, "Transaction verification failed"))]
  /\ UNCHANGED <<onVars, offVars, logVars, xfer>>

\* -------------------------------------------- transferUSDTFromOfframp
MalformedAddress == "0xZZ"
TransferTargets == {EmployeeAddress, MalformedAddress}
TransferAmounts == {1000, 1502}
CustodyBalances == {503, 800, 5000}

\* What one pass of the try block ends with: NoError when the transfer
\* was sent, the error thrown otherwise.  The node may fail at any of its
\* calls; the balance is read anew on every attempt.
AttemptResults(to, amount) ==
  UNION {IF balance < amount
           THEN {InsufficientBalance(amount, balance)}
           ELSE IF isValidAddress(to) THEN {NoError} ELSE {InvalidAddress}
         : balance \in CustodyBalances}
  \cup NodeErrors

IdleTransfer ==
  [pc |-> "idle", to |-> "", amount |-> 0, attempt |-> 0,
   lastError |-> NoError, thrown |-> ""]

InitTransfer == xfer = IdleTransfer

\* A call begins; without a configured wallet it throws at once.
TStart ==
  /\ xfer.pc \in {"idle", "returned", "thrown"}
  /\ \E to \in TransferTargets, amount \in TransferAmounts,
        offrampWallet \in BOOLEAN :
       xfer' = IF ~offrampWallet
                 THEN [IdleTransfer EXCEPT
                         !.pc = "thrown", !.lastError = NotConfigured,
                         !.thrown = Join(NotConfigured.message)]
                 ELSE [IdleTransfer EXCEPT !.pc = "attempt", !.to = to,
                                           !.amount = amount, !.attempt = 1]
  /\ UNCHANGED <<onVars, offVars, logVars, payVars>>

\* One pass of the loop body, up to the return, the wait or the throw.
TAttempt ==
  /\ xfer.pc = "attempt"
  /\ xfer.attempt <= maxRetries
  /\ \E error \in AttemptResults(xfer.to, xfer.amount) :
       xfer' = IF error = NoError
                 THEN [xfer EXCEPT !.pc = "returned"]
                 ELSE IF isRetryableError(error) /\ xfer.attempt < maxRetries
                 THEN [xfer EXCEPT !.pc = "backoff", !.lastError = error]
                 ELSE [xfer EXCEPT
                         !.pc = "thrown", !.lastError = error,
                         !.thrown = TransferError(Join(error.message))]
  /\ UNCHANGED <<onVars, offVars, logVars, payVars>>

\* The wait is over: continue with the next attempt.
TContinue ==
  /\ xfer.pc = "backoff"
  /\ xfer' = [xfer EXCEPT !.pc = "attempt", !.attempt = @ + 1]
  /\ UNCHANGED <<onVars, offVars, logVars, payVars>>

\* ------------------------------------------------------------- Next
Init == InitOnRamp /\ InitOffRamp /\ InitPayroll /\ InitTransfer

NextOnRamp ==
  \/ CreatePaymentIntentHandler
  \/ StripeConfirm
  \/ StripeSucceeds
  \/ StripeDeclines
  \/ StripeCancels
  \/ \E h \in Deliveries : HRead(h)
  \/ \E h \in Deliveries : HSetProcessing(h)
  \/ \E h \in Deliveries : HTransfer(h)
  \/ \E h \in Deliveries : HWait(h)
  \/ \E h \in Deliveries : HComplete(h)
  \/ \E h \in Deliveries : HCatch(h)
  \/ HandlePaymentIntentFailed
  \/ HandlePaymentIntentCanceled
  \/ \E k \in Polls : PollRead(k)
  \/ \E k \in Polls : PollStripe(k)
  \/ \E k \in Polls : PollUpdate(k)

NextOffRamp ==
  \/ \E c \in Calls : RCStart(c)
  \/ \E c \in Calls : RCCheck(c)
  \/ \E c \in Calls : RCCreate(c)
  \/ \E c \in Calls : RCTransfer(c)
  \/ \E c \in Calls : RCPayout(c)
  \/ \E c \in Calls : RCUpdate(c)
  \/ \E c \in Calls : RCFailed(c)
  \/ \E p \in PayoutIds : StripePayoutPaid(p)
  \/ \E p \in PayoutIds : StripePayoutFails(p)
  \/ \E p \in PayoutIds : StripePayoutCanceled(p)
  \/ \E p \in PayoutIds : HandlePayoutPaid(p)
  \/ \E p \in PayoutIds : HandlePayoutFailed(p)
  \/ \E p \in PayoutIds : HandlePayoutCanceled(p)

\* requestCashout calls at any time, each payout reported paid and the
\* event delivered once, at any time after the payout was created.
NextPayoutOnce ==
  \/ \E c \in Calls : RCStart(c)
  \/ \E c \in Calls : RCCheck(c)
  \/ \E c \in Calls : RCCreate(c)
  \/ \E c \in Calls : RCTransfer(c)
  \/ \E c \in Calls : RCPayout(c)
  \/ \E c \in Calls : RCUpdate(c)
  \/ \E c \in Calls : RCFailed(c)
  \/ \E p \in PayoutIds : StripePayoutPaid(p)
  \/ \E p \in PayoutIds : HandlePayoutPaidOnce(p)

\* The handlers of one flow run one at a time: a delivery or a request
\* starts only after the previous one has returned.
OneDeliveryAtATime(h) == \A g \in Deliveries \ {h} : ~InFlight(g)
OneCallAtATime(c) == \A d \in Calls \ {c} : ~CallInFlight(d)
NoCallInFlight == \A c \in Calls : ~CallInFlight(c)

\* Deliveries of payment_intent.succeeded, one after the other.
NextOnRampSeq ==
  \/ CreatePaymentIntentLogged
  \/ HandleStripeWebhookUnverified
  \/ StripeConfirm
  \/ StripeSucceeds
  \/ \E h \in Deliveries : OneDeliveryAtATime(h) /\ HRead(h)
  \/ \E h \in Deliveries : HSetProcessing(h)
  \/ \E h \in Deliveries : HTransferLogged(h)
  \/ \E h \in Deliveries : HWaitLogged(h)
  \/ \E h \in Deliveries : HComplete(h)
  \/ \E h \in Deliveries : HCatch(h)

\* The same, the database refusing updates of the handler at any time.
NextLedgerFaults ==
  \/ NextOnRampSeq
  \/ CreateIntentInsertFailsLogged
  \/ \E h \in Deliveries : HSetProcessingFails(h)
  \/ \E h \in Deliveries : HCompleteFails(h)
  \/ \E h \in Deliveries : HCatchFails(h)

\* requestCashout calls one after the other, payout events at any time.
NextOffRampSeq ==
  \/ \E c \in Calls : OneCallAtATime(c) /\ RCStart(c)
  \/ \E c \in Calls : RCCheck(c)
  \/ \E c \in Calls : RCCreate(c)
  \/ \E c \in Calls : RCTransfer(c)
  \/ \E c \in Calls : RCPayout(c)
  \/ \E c \in Calls : RCUpdate(c)
  \/ \E c \in Calls : RCFailed(c)
  \/ \E p \in PayoutIds : StripePayoutPaid(p)
  \/ \E p \in PayoutIds : StripePayoutFails(p)
  \/ \E p \in PayoutIds : StripePayoutCanceled(p)
  \/ \E p \in PayoutIds : HandlePayoutPaid(p)
  \/ \E p \in PayoutIds : HandlePayoutFailed(p)
  \/ \E p \in PayoutIds : HandlePayoutCanceled(p)

\* requestCashout calls one after the other, each request body kept.
NextCashoutCalls ==
  \/ \E c \in Calls : OneCallAtATime(c) /\ RCStartLogged(c)
  \/ \E c \in Calls : RCCheck(c)
  \/ \E c \in Calls : RCCreate(c)
  \/ \E c \in Calls : RCTransfer(c)
  \/ \E c \in Calls : RCPayout(c)
  \/ \E c \in Calls : RCUpdate(c)
  \/ \E c \in Calls : RCFailed(c)

\* requestCashout calls one after the other, the hash spelled in either
\* case.
NextSpellings ==
  \/ \E c \in Calls : OneCallAtATime(c) /\ RCStartSpelled(c)
  \/ \E c \in Calls : RCCheck(c)
  \/ \E c \in Calls : RCCreate(c)
  \/ \E c \in Calls : RCTransfer(c)
  \/ \E c \in Calls : RCPayout(c)
  \/ \E c \in Calls : RCUpdate(c)
  \/ \E c \in Calls : RCFailed(c)

\* The requests that arrive from outside, served one after the other,
\* each request kept with its answers and its response.
NextRequests ==
  \/ NextCashoutCalls
  \/ NoCallInFlight /\ CreatePaymentIntentLogged
  \/ NoCallInFlight /\ HandleStripeWebhookUnverified

\* Payroll batches: executePayroll calls at any time.
NextPayroll ==
  \/ PreparePayroll
  \/ \E e \in Executions : EPStart(e)
  \/ \E e \in Executions : EPVerify(e)
  \/ \E e \in Executions : EPUpdate(e)

\* Payroll batches: executePayroll calls one after the other.
NoExecutionInFlight == \A e \in Executions : eps[e].pc \in {"idle", "done"}

NextPayrollSeq ==
  \/ PreparePayroll
  \/ \E e \in Executions : NoExecutionInFlight /\ EPStart(e)
  \/ \E e \in Executions : EPVerify(e)
  \/ \E e \in Executions : EPUpdate(e)

\* Calls of transferUSDTFromOfframp, one after the other, step by step.
\* preparePayroll runs, one after the other.
NextPrepare == PreparePayrollLogged

NextTransfer == TStart \/ TAttempt \/ TContinue

\* Both ledgers: purchases settle while no cashout was requested, and
\* cashouts are requested, one call after the other, once the purchase is
\* completed at 1:1 by a single transfer without an error and every
\* delivery and every poll has returned.
OffRampUntouched == cashouts = <<>> /\ \A c \in Calls : rcs[c].pc = "idle"
OnRampSettled ==
  /\ payment.status = "completed" /\ broadcasts = 1
  /\ payment.error_message = NoMsg /\ payment.exchange_rate = Milli
  /\ \A h \in Deliveries :
       hs[h].pc = "done" /\ hs[h].outcome \in {"completed", "noop"}
  /\ \A k \in Polls : polls[k].pc = "done" /\ polls[k].status = "completed"
NextLedgers ==
  \/ OffRampUntouched /\ NextOnRamp
  \/ OnRampSettled /\ NextOffRampSeq

\* requestCashout calls one after the other, the node holding receipts
\* with all their logs.
NextReceipts ==
  \/ \E c \in Calls : OneCallAtATime(c) /\ RCStartReceiptLogged(c)
  \/ \E c \in Calls : RCCheck(c)
  \/ \E c \in Calls : RCCreate(c)
  \/ \E c \in Calls : RCTransfer(c)
  \/ \E c \in Calls : RCPayout(c)
  \/ \E c \in Calls : RCUpdate(c)
  \/ \E c \in Calls : RCFailed(c)

\* The rate service and the purchases priced by it.
NextRates == GetExchangeRateLogged \/ CreateIntentLookupLogged

Next == NextOnRamp \/ NextOffRamp \/ NextPayroll \/ NextTransfer

\* The whole system; the two flows share no state, and each is checked
\* under its own specification.
Spec == Init /\ [][Next]_vars
SpecOnRamp == Init /\ [][NextOnRamp]_vars
SpecOffRamp == Init /\ [][NextOffRamp]_vars
SpecOnRampSeq == Init /\ [][NextOnRampSeq]_vars
SpecOffRampSeq == Init /\ [][NextOffRampSeq]_vars
SpecCashoutCalls == Init /\ [][NextCashoutCalls]_vars
SpecRequests == Init /\ [][NextRequests]_vars
SpecPayroll == Init /\ [][NextPayroll]_vars
SpecTransfer == Init /\ [][NextTransfer]_vars
SpecPrepare == Init /\ [][NextPrepare]_vars
SpecRates == Init /\ [][NextRates]_vars
SpecReceipts == Init /\ [][NextReceipts]_vars
SpecLedgers == Init /\ [][NextLedgers]_vars
SpecPayoutOnce == Init /\ [][NextPayoutOnce]_vars
SpecLedgerFaults == Init /\ [][NextLedgerFaults]_vars
SpecPayrollSeq == Init /\ [][NextPayrollSeq]_vars
SpecSpellings == Init /\ [][NextSpellings]_vars

\* =================================================================
\* Properties
\* =================================================================
\* C1: under SpecOnRampSeq, a payment_intent.succeeded delivery handled
\* after an earlier delivery settled the Payment returns at the gate: it
\* broadcasts nothing and the row stays completed with the earlier
\* delivery's tx_hash; when the settling delivery was the first one, one
\* transfer has been broadcast in all and the row is exactly as it left it.
C1_SecondDeliveryIsNoOp ==
  \A h1, h2 \in Deliveries :
    (h1 < h2 /\ hs[h1].outcome = "completed" /\ hs[h2].pc = "done") =>
      /\ hs[h2].outcome = "noop"
      /\ hs[h2].tx = NoHash
      /\ payment.status = "completed"
      /\ payment.tx_hash = hs[h1].tx
      /\ h1 = 1 =>
           /\ broadcasts = 1
           /\ payment = [status |-> "completed", tx_hash |-> hs[1].tx,
                         block_number |-> hs[1].tx, error_message |-> NoMsg,
                         completed_at |-> TRUE,
                         amount_usdt |-> payment.amount_usdt,
                         exchange_rate |-> payment.exchange_rate]

\* The first delivery settled the Payment and a second one has returned.
C1_Witness ==
  /\ hs[1].outcome = "completed"
  /\ hs[2].pc = "done"
  /\ broadcasts = 1

\* C2: no two runs of handlePaymentIntentSucceeded that are in flight at
\* the same time have both broadcast a transfer for the Payment.
C2_AtMostOneTransferWhenConcurrent ==
  \A h1, h2 \in Deliveries :
    (h1 # h2 /\ InFlight(h1) /\ InFlight(h2)) =>
      ~(hs[h1].tx # NoHash /\ hs[h2].tx # NoHash)

\* C3: once a transfer has been broadcast for the Payment, no later step
\* broadcasts another one (deliveries handled one after the other).
C3_NoTransferAfterBroadcast ==
  [][broadcasts >= 1 => broadcasts' = broadcasts]_vars

\* The responses requestCashout gives before the duplicate lookup.
Rejections == Checks \ {"ok"}

RowsWithHash(txHash) ==
  {i \in DOMAIN cashouts : cashouts[i].tx_hash_onchain = txHash}

CashoutStatuses ==
  {"pending_transfer", "pending_payout", "in_transit", "paid", "failed",
   "canceled"}

\* C4: under SpecOffRampSeq, a valid requestCashout call made after a call
\* with the same txHash created the Cashout row answers with that row's id
\* and a status of it, and calls neither createCashout nor createPayout
\* nor transferToConnectedAccount; one row holds the hash and the first
\* call made at most one createPayout call.
C4_SecondRequestReturnsExisting ==
  \A c1, c2 \in Calls :
    (/\ c1 < c2
     /\ rcs[c1].pc = "done" /\ rcs[c1].created
     /\ rcs[c2].pc = "done" /\ rcs[c2].txHash = rcs[c1].txHash
     /\ rcs[c2].resp \notin Rejections) =>
      /\ rcs[c2].resp = "existing"
      /\ rcs[c2].cashoutId = rcs[c1].cashoutId
      /\ rcs[c2].respStatus \in CashoutStatuses
      /\ ~rcs[c2].created
      /\ ~rcs[c2].transferred
      /\ rcs[c2].payoutCalls = 0
      /\ rcs[c1].payoutCalls <= 1
      /\ RowsWithHash(rcs[c1].txHash) = {rcs[c1].cashoutId}

\* The first call's payout failed, and the second call got the failed row.
C4_Witness ==
  /\ rcs[1].created /\ rcs[1].resp = "error"
  /\ rcs[2].pc = "done" /\ rcs[2].txHash = rcs[1].txHash
  /\ rcs[2].resp = "existing" /\ rcs[2].respStatus = "failed"

\* C5: no two Cashout rows have the same inbound transaction hash.
C5_InboundHashUnique ==
  \A i, j \in DOMAIN cashouts :
    i # j => cashouts[i].tx_hash_onchain # cashouts[j].tx_hash_onchain

\* C6: once the Payment row is completed, no step changes its status or
\* its tx_hash.
C6_CompletedIsImmutable ==
  [][payment.status = "completed" =>
       (payment'.status = "completed" /\ payment'.tx_hash = payment.tx_hash)]_vars

\* C7: the Payment row has a tx_hash if and only if its status is completed.
C7_TxHashIffCompleted ==
  payment.status # "none" =>
    (payment.tx_hash # NoHash <=> payment.status = "completed")

OnRampTransitions ==
  {<<"none", "pending">>,
   <<"pending", "processing">>, <<"processing", "completed">>,
   <<"pending", "failed">>, <<"pending", "canceled">>,
   <<"processing", "failed">>, <<"processing", "canceled">>}

\* C8: every status change of the Payment row is a transition of the
\* on-ramp state machine.
C8_OnRampStateMachine ==
  [][payment'.status # payment.status =>
       <<payment.status, payment'.status>> \in OnRampTransitions]_vars

OffRampRank(st) ==
  CASE st = "pending_transfer" -> 1
    [] st = "pending_payout" -> 2
    [] st = "in_transit" -> 3
    [] st = "paid" -> 4
    [] OTHER -> 5

\* Forward along pending_transfer, pending_payout, in_transit, paid, or
\* from a non-terminal state to failed or canceled.
OffRampTransition(from, to) ==
  \/ OffRampRank(from) < OffRampRank(to) /\ OffRampRank(to) <= 4
  \/ OffRampRank(from) <= 3 /\ to \in {"failed", "canceled"}

\* C9: every Cashout row is created pending_transfer and every status
\* change of a row is a transition of the off-ramp state machine.
C9_OffRampStateMachine ==
  [][/\ \A i \in DOMAIN cashouts :
          cashouts'[i].status # cashouts[i].status =>
            OffRampTransition(cashouts[i].status, cashouts'[i].status)
     /\ \A i \in DOMAIN cashouts' \ DOMAIN cashouts :
          cashouts'[i].status = "pending_transfer"]_vars

\* C10: every Payment row and every Cashout row whose status is failed has
\* a non-empty error_message.
C10_FailedHasErrorMessage ==
  /\ payment.status = "failed" => payment.error_message # NoMsg
  /\ \A i \in DOMAIN cashouts :
       cashouts[i].status = "failed" => cashouts[i].error_message # NoMsg

\* The requestCashout call that received lastReq: calls start in order.
LastCall ==
  IF \E c \in Calls : rcs[c].pc # "idle"
    THEN Max({c \in Calls : rcs[c].pc # "idle"}) ELSE 0

\* The signature of request r recovers to the address r claims.
RecoversToClaimed(r) ==
  /\ verifyMessage(r.message, r.signature) # ""
  /\ toLowerCase(verifyMessage(r.message, r.signature))
       = toLowerCase(r.employeeAddress)

\* C11: a requestCashout call whose signature does not recover to the
\* claimed employee address, or is malformed, has returned without a
\* single chain lookup, and with the invalid-signature response when its
\* fields pass validation.
C11_BadSignatureMakesNoLookup ==
  \A c \in Calls :
    (c = LastCall /\ ~RecoversToClaimed(lastReq)) =>
      /\ rcs[c].pc = "done"
      /\ rcs[c].lookups = 0
      /\ rcs[c].receipt = "none"
      /\ Validation(lastReq)[1] = "ok" =>
           (rcs[c].resp = "invalid_signature" /\ rcs[c].err = "Invalid signature")

\* A request signed by another key, and one with a malformed signature,
\* were answered.
C11_Witness ==
  /\ rcs[1].resp = "invalid_signature"
  /\ rcs[2].resp = "invalid_signature"
  /\ lastReq.signature = "garbage"

C18_ToleranceIsOneHundredth ==
  \A c \in Calls :
    /\ rcs[c].resp = "amount_mismatch" =>
         /\ rcs[c].requested # 0 /\ rcs[c].transferred_amount # 0
         /\ Abs(rcs[c].transferred_amount - rcs[c].requested) > Tolerance
    /\ rcs[c].transfer # NoTransfer =>
         Abs(rcs[c].transfer.amount - rcs[c].amount) <= Tolerance

\* The three kinds of request that lastReq holds.
IsCashoutRequest(r) == "txHash" \in DOMAIN r
IsIntent(r) == "walletAddress" \in DOMAIN r
IsWebhook(r) == "stripeSignature" \in DOMAIN r

\* A cashout request that is to be refused, rc being the node's answer for
\* its hash: a field is missing, the address is malformed, the amount is
\* not positive, the currency is not supported, the signature or the
\* message is bad, or the chain does not show the claimed transfer.
RefusableCashout(r, rc) ==
  \/ r.employeeAddress = "" \/ r.currency = "" \/ r.bankAccountId = ""
  \/ r.signature = "" \/ r.message = NoMessage \/ r.txHash = NoHash
  \/ ~isValidAddress(r.employeeAddress)
  \/ r.amount <= 0
  \/ toLowerCase(r.currency) \notin {"usd", "eur"}
  \/ ~RecoversToClaimed(r)
  \/ ~validateCashoutMessage(r.message, r.employeeAddress, r.amount)
  \/ rc.status # "success" \/ rc.log = NoTransfer
  \/ toLowerCase(rc.log.from) # toLowerCase(r.employeeAddress)
  \/ toLowerCase(rc.log.to) # toLowerCase(OfframpAddress)
  \/ Abs(rc.log.amount - r.amount) > Tolerance

\* A payment intent request that is to be refused.
RefusableIntent(b) ==
  \/ b.walletAddress = "" \/ ~isValidAddress(b.walletAddress)
  \/ b.amount <= 0
  \/ b.currency = "" \/ toLowerCase(b.currency) \notin {"usd", "eur"}

LedgerAndExternals ==
  <<payment, stripePI, broadcasts, cashouts, payouts, connectedTransfers>>

\* C12: under SpecRequests, a requestCashout call that receives a request
\* to be refused returns a rejection at once and leaves the ledger, Stripe
\* and the chain as they were, a returned call does nothing more, and the
\* cashout ledger changes only in a step of a call in flight; a
\* createPaymentIntentHandler run whose body fails validation answers 400
\* and creates neither the payment intent nor the row; a webhook delivery
\* whose signature is missing or does not verify changes nothing.
C12_RefusalsLeaveNoTrace ==
  [][/\ \A c \in Calls :
          /\ (/\ rcs[c].pc = "idle" /\ rcs'[c].pc # "idle"
              /\ RefusableCashout(lastReq', lastAnswer'))
               => /\ rcs'[c].pc = "done"
                  /\ rcs'[c].resp \in Rejections
                  /\ ~rcs'[c].created /\ rcs'[c].payoutCalls = 0
                  /\ UNCHANGED LedgerAndExternals
          /\ rcs[c].pc = "done" => rcs'[c] = rcs[c]
     /\ <<cashouts, payouts, connectedTransfers>>'
          # <<cashouts, payouts, connectedTransfers>>
            => \E c \in Calls : CallInFlight(c)
     /\ (IsIntent(lastReq') /\ RefusableIntent(lastReq'))
          => /\ lastResp'.status = 400
             /\ UNCHANGED LedgerAndExternals
     /\ (/\ IsWebhook(lastReq')
         /\ \/ lastReq'.stripeSignature = ""
            \/ verifyWebhookSignature(lastReq'.stripeSignature) # "")
          => UNCHANGED <<LedgerAndExternals, hs, rcs, emitted, polls>>]_vars

\* Two cashout requests were refused, one for its currency and one by the
\* chain, and a payment intent request was refused for its currency after
\* the row of an earlier one was inserted.
C12_Witness ==
  /\ rcs[1].resp = "invalid_input" /\ rcs[2].resp = "verification_failed"
  /\ cashouts = <<>> /\ payouts = <<>>
  /\ payment.status = "pending"
  /\ IsIntent(lastReq) /\ lastReq.currency = "gbp"
  /\ lastResp.status = 400

\* C14: the response to a webhook delivery whose signature is missing or
\* does not verify is no success acknowledgment, and differs in more than
\* its error text from the response to a verified event whose handler
\* threw.
C14_UnverifiedIsRejected ==
  (/\ IsWebhook(lastReq)
   /\ \/ lastReq.stripeSignature = ""
      \/ verifyWebhookSignature(lastReq.stripeSignature) # "")
    => /\ lastResp.status # 200
       /\ ~lastResp.received
       /\ \A h \in Deliveries :
            hs[h].outcome = "threw" =>
              [hs[h].resp EXCEPT !.error = ""] # [lastResp EXCEPT !.error = ""]

C20_RateFallsBackToOne ==
  [][(IsIntent(lastReq') /\ lastAnswer'.rate = Throws) =>
       LET fiat == lastReq'.amount * Milli
           a == lastAnswer'
           resp == lastResp'
       IN /\ resp.status = 500 => a.stripe = "throws"
          /\ resp.status = 400 =>
               \/ ValidateIntent(lastReq') # ""
               \/ /\ resp.error \in {"Maximum purchase limit is 5 USDT",
                                     "Insufficient balance in offramp wallet"}
                  /\ resp.amountUSDT = fiat
          /\ resp.status = 200 =>
               resp.exchangeRate = Milli /\ resp.amountUSDT = fiat
          /\ (/\ fiat <= MaxPurchase
              /\ a.balance = Throws \/ a.balance >= fiat
              /\ a.stripe = "ok") => resp.status = 200
          /\ (payment.status = "none" /\ payment'.status # "none") =>
               /\ payment'.status = "pending"
               /\ payment'.exchange_rate = Milli
               /\ payment'.amount_usdt = fiat]_vars

\* The lookup threw and the row for 2 units of fiat was inserted.
C20_Witness ==
  /\ IsIntent(lastReq) /\ lastReq.amount = 2000
  /\ lastAnswer.rate = Throws
  /\ lastResp.status = 200 /\ lastResp.exchangeRate = Milli
  /\ payment.status = "pending"
  /\ payment.exchange_rate = Milli /\ payment.amount_usdt = 2 * Micro

\* The events of receipt rc that move tokens from the employer to addr,
\* an address in lower case.
PaidTo(rc, addr) ==
  {i \in DOMAIN rc.logs :
     /\ toLowerCase(rc.logs[i].from) = toLowerCase(EmployerAddress)
     /\ toLowerCase(rc.logs[i].to) = addr}

\* The transaction succeeded and was sent by the employer.
SentByEmployer(rc) ==
  rc.status = "success" /\ toLowerCase(rc.from) = toLowerCase(EmployerAddress)

\* C16: an executePayroll run for the batch that expects A and B, whose
\* transaction pays A the expected amount and pays B nothing, writes no
\* row and answers 400 with B as the only missing employee.
C16_MissingRecipientSettlesNothing ==
  [][\A e \in Executions :
       (/\ eps[e].pc = "verify" /\ eps'[e].pc # "verify"
        /\ DOMAIN eps[e].expected
             = {toLowerCase(EmployeeAddress), toLowerCase(OtherAddress)}
        /\ SentByEmployer(lastAnswer')
        /\ PaidTo(lastAnswer', toLowerCase(EmployeeAddress)) # {}
        /\ \A i \in PaidTo(lastAnswer', toLowerCase(EmployeeAddress)) :
             lastAnswer'.logs[i].amount = RequestedAmount
        /\ PaidTo(lastAnswer', toLowerCase(OtherAddress)) = {})
         => /\ payrolls' = payrolls
            /\ eps'[e].pc = "done"
            /\ eps'[e].resp.status = 400
            /\ eps'[e].resp.error = "Not all employees received payments"
            /\ eps'[e].resp.missing = {toLowerCase(OtherAddress)}]_vars

\* The transaction paid A alone, B was reported missing and both rows are
\* pending without a hash.
C16_Witness ==
  /\ lastAnswer.status = "success"
  /\ lastAnswer.logs = <<[from |-> EmployerAddress, to |-> EmployeeAddress,
                          amount |-> RequestedAmount]>>
  /\ eps[1].pc = "done" /\ "missing" \in DOMAIN eps[1].resp
  /\ eps[1].resp.missing = {toLowerCase(OtherAddress)}
  /\ Len(payrolls) = 2
  /\ \A i \in DOMAIN payrolls :
       payrolls[i].status = "pending" /\ payrolls[i].tx_hash = NoHash

C19_PermanentFailureEndsTheCall ==
  xfer.lastError.origin \in PermanentOrigins => xfer.pc = "thrown"


\* C21: the payment intent is created at Stripe, and the Payment row
\* inserted, only by a createPaymentIntentHandler run whose computed token
\* amount is at most 5 tokens; a run whose amount exceeds the limit answers
\* 400 without asking the balance or Stripe, and the row that exists never
\* holds more than the limit.
C21_NoIntentAboveLimit ==
  [][LET amountUSDT == lastReq'.amount * ExchangeRate(lastAnswer'.rate) IN
     /\ (\/ stripePI = "none" /\ stripePI' # "none"
         \/ payment.status = "none" /\ payment'.status # "none")
          => /\ IsIntent(lastReq')
             /\ amountUSDT <= MaxPurchase
             /\ payment'.amount_usdt = amountUSDT
     /\ (/\ IsIntent(lastReq') /\ ValidateIntent(lastReq') = ""
         /\ amountUSDT > MaxPurchase)
          => /\ lastResp'.status = 400
             /\ lastResp'.error = "Maximum purchase limit is 5 USDT"
             /\ lastAnswer'.balance = Unasked
             /\ lastAnswer'.stripe = "unasked"]_vars

\* A request for 12 units of fiat at two units per token, 6 tokens, was
\* refused and nothing was created.
C21_Witness ==
  /\ IsIntent(lastReq) /\ lastReq.amount = 12000
  /\ lastAnswer.rate = 2000
  /\ lastResp.status = 400 /\ lastResp.amountUSDT = 6 * Micro
  /\ stripePI = "none" /\ payment.status = "none"


\* The rows that bear payout id p.
RowsOfPayout(p) == {i \in DOMAIN cashouts : cashouts[i].payout_id_stripe = p}

\* C22: a step of handlePayoutPaid, handlePayoutFailed or
\* handlePayoutCanceled (the table changes and no requestCashout call
\* moves) changes one row only, a row that bears the id of a payout Stripe
\* has sent the event of: to paid with completed_at set, to failed with
\* the failure code and message of the payout ("unknown" and "Payout
\* failed" when Stripe gives none), or to canceled; nothing else of the
\* row changes, and an event whose payout id no row bears changes nothing.
C22_PayoutEventTouchesItsRowOnly ==
  [][(cashouts' # cashouts /\ rcs' = rcs) =>
       /\ DOMAIN cashouts' = DOMAIN cashouts
       /\ UNCHANGED <<payouts, connectedTransfers>>
       /\ \E p \in PayoutIds : \E id \in RowsOfPayout(p) :
            /\ \A j \in DOMAIN cashouts \ {id} : cashouts'[j] = cashouts[j]
            /\ \/ /\ "paid" \in payouts[p].events
                  /\ cashouts'[id] = [cashouts[id] EXCEPT
                                        !.status = "paid",
                                        !.completed_at = TRUE]
               \/ /\ "failed" \in payouts[p].events
                  /\ cashouts'[id] = [cashouts[id] EXCEPT
                       !.status = "failed",
                       !.error_message =
                         IF payouts[p].failure_code = "account_closed"
                           THEN "Stripe payout failed: account_closed - The bank account has been closed."
                           ELSE "Stripe payout failed: unknown - Payout failed"]
               \/ /\ "canceled" \in payouts[p].events
                  /\ cashouts'[id] = [cashouts[id] EXCEPT
                       !.status = "canceled",
                       !.error_message = "Stripe payout was canceled"]]_vars

\* The row of one payout was set to failed with Stripe's code and message
\* while the paid event of another payout, whose id no row bears yet, has
\* been sent and left every row as it was.
C22_Witness ==
  \E p, q \in PayoutIds :
    /\ \E id \in RowsOfPayout(p) :
         /\ cashouts[id].status = "failed"
         /\ cashouts[id].error_message =
              "Stripe payout failed: account_closed - The bank account has been closed."
         /\ ~cashouts[id].completed_at
    /\ "paid" \in payouts[q].events
    /\ RowsOfPayout(q) = {}
    /\ \A i \in DOMAIN cashouts : cashouts[i].status # "paid"


IsPrepare(r) == "employees" \in DOMAIN r

\* Entry i of a batch is one that preparePayroll is to refuse: its address
\* is malformed, is repeated in the batch (letter case apart) or is the
\* employer's, or its amount is not positive or not a number.
BadEntry(b, i) ==
  LET emp == b.employees[i] IN
  \/ ~isValidAddress(emp.address)
  \/ \E j \in DOMAIN b.employees \ {i} :
       toLowerCase(b.employees[j].address) = toLowerCase(emp.address)
  \/ toLowerCase(emp.address) = toLowerCase(b.employer_address)
  \/ emp.form # "decimal"
  \/ emp.amount <= 0

BadBatch(b) == \E i \in DOMAIN b.employees : BadEntry(b, i)

\* The rows are those of batch b: one pending row per entry, in order,
\* all under the payroll_id answered.
RowsOfBatch(rows, b, payrollId) ==
  /\ Len(rows) = Len(b.employees)
  /\ \A i \in DOMAIN rows :
       /\ rows[i].status = "pending"
       /\ rows[i].payroll_id = payrollId
       /\ rows[i].employee_address = toLowerCase(b.employees[i].address)
       /\ rows[i].amount_usdt = b.employees[i].amount
       /\ rows[i].tx_hash = NoHash

Unverifiable(rc, employer) ==
  \/ rc.status \in {"null", "reverted"}
  \/ toLowerCase(rc.from) # toLowerCase(employer)
  \/ \A i \in DOMAIN rc.logs :
       toLowerCase(rc.logs[i].from) # toLowerCase(employer)

VerificationFailed == PayrollResponse(400, "Transaction verification failed")

\* C24: an executePayroll run whose transaction cannot be verified goes to
\* the catch block; from there on each of its steps writes failed, with
\* the hash submitted, to every row of the batch and completes none, and
\* the run ends with 400 'Transaction verification failed'; no run answers
\* so otherwise.
C24_UnverifiedCompletesNothing ==
  [][\A e \in Executions :
       /\ (/\ eps[e].pc = "verify" /\ eps'[e].pc # "verify"
           /\ Unverifiable(lastAnswer', eps[e].employer))
            => eps'[e].pc = "failing" /\ payrolls' = payrolls
       /\ (eps[e].pc = "failing" /\ eps'[e] # eps[e]) =>
            /\ eps'[e].pc \in {"failing", "done"}
            /\ eps'[e].pc = "done" => eps'[e].resp = VerificationFailed
            /\ \A i \in DOMAIN payrolls' :
                 payrolls'[i].payroll_id = eps[e].payrollId =>
                   /\ payrolls'[i].status = "failed"
                   /\ payrolls'[i].tx_hash = eps[e].txHash
       /\ (eps'[e].pc = "done" /\ eps'[e] # eps[e]
           /\ eps'[e].resp = VerificationFailed) => eps[e].pc = "failing"
       /\ eps'[e].pc = "failing" =>
            eps[e].pc = "failing"
            \/ (eps[e].pc = "verify"
                /\ Unverifiable(lastAnswer', eps[e].employer))]_vars

\* A transaction that pays the batch in full but was sent by another
\* account was submitted; the run answered the verification error and the
\* rows are failed.
C24_Witness ==
  /\ lastAnswer.status = "success" /\ lastAnswer.from = OtherAddress
  /\ lastAnswer.logs = PaidInFull
  /\ eps[1].pc = "done" /\ eps[1].resp = VerificationFailed
  /\ Len(payrolls) = 2
  /\ \A i \in DOMAIN payrolls :
       payrolls[i].status = "failed" /\ payrolls[i].tx_hash # NoHash


TransientFailure(error) == error.origin = "node" /\ isRetryableError(error)

C28_PayoutRetriedOnce ==
  \A c \in Calls :
    (/\ rcs[c].pc = "failed" /\ rcs[c].connected /\ rcs[c].transferred
     /\ rcs[c].payoutCalls > 0) => rcs[c].payoutCalls = 2

\* The rate is a number that is not positive: zero, negative or NaN.
NotPositive(rate) == rate \notin {Unasked, Throws} /\ ~LessThan(0, rate)

IsRateCall(r) == "to" \in DOMAIN r /\ "from" \in DOMAIN r

\* The request to CoinGecko got no answer or an error status.
LookupFailed(f) == ~f.reached \/ f.status \notin 200..299

\* C30: a call of getExchangeRate for USDT->USD, USDT->EUR or USDT->VND
\* that finds no fresh cached row and whose lookup fails returns 1.0.
C30_IdentityRateWhenLookupFails ==
  (/\ IsRateCall(lastReq)
   /\ toLowerCase(lastReq.from) = "usdt"
   /\ toLowerCase(lastReq.to) \in {"usd", "eur", "vnd"}
   /\ ~lastAnswer.cached.found
   /\ LookupFailed(lastAnswer.fetched))
    => lastResp.returned = Milli

\* The receipt is successful and one of its logs, at whatever position,
\* encodes a Transfer event.
HasTransferLog(receipt) ==
  /\ receipt.status = "success"
  /\ \E i \in DOMAIN receipt.logs : receipt.logs[i].event = "Transfer"

IsFullReceipt(a) == "logs" \in DOMAIN a /\ "status" \in DOMAIN a

\* C31: the verification of a requestCashout call succeeds when the
\* receipt is successful and holds a Transfer log at any position, and
\* answers that no Transfer event was found only when no log of the
\* receipt encodes one.
C31_TransferFoundAtAnyPosition ==
  (IsCashoutRequest(lastReq) /\ IsFullReceipt(lastAnswer))
    => /\ HasTransferLog(lastAnswer)
            => lastResp.resp \notin {"verification_failed", "rpc_error"}
       /\ lastResp.err = "Failed to verify transaction: Transfer event not found"
            => ~HasTransferLog(lastAnswer)

\* C32: a requestCashout call inserts a Cashout row, after which alone it
\* creates a payout, only when the receipt of its deposit holds a Transfer
\* log emitted by the token contract.
C32_ProofIsFromTheTokenContract ==
  [][(DOMAIN cashouts' # DOMAIN cashouts /\ IsFullReceipt(lastAnswer))
       => \E i \in DOMAIN lastAnswer.logs :
            /\ lastAnswer.logs[i].event = "Transfer"
            /\ lastAnswer.logs[i].address = usdtContractAddress]_vars

\* The run of the handler has passed the gate and has not returned.
PastTheGate(run) ==
  run.pc \in {"processing", "transfer", "wait", "complete", "catch"}

\* C33: a run of handlePaymentIntentSucceeded that passed the gate returns,
\* every call it made having answered with a result or an error, only
\* with the Payment row completed or failed.
C33_RunEndsCompletedOrFailed ==
  [][\A h \in Deliveries :
       (PastTheGate(hs[h]) /\ hs'[h].pc = "done")
         => payment'.status \in {"completed", "failed"}]_vars

\* C34: once a requestCashout call that created a payout has returned and
\* the payout.paid event of the payout has been delivered, nothing else
\* being delivered for it, the Cashout of the call has status paid.
C34_DeliveredPaidIsPaid ==
  \A c \in Calls :
    (/\ rcs[c].pc = "done"
     /\ rcs[c].payoutId # 0
     /\ "paid" \in payouts[rcs[c].payoutId].delivered)
      => cashouts[rcs[c].cashoutId].status = "paid"

\* C35: whenever the payment intent exists at Stripe the payments table
\* holds the row keyed by its id, so that a delivery of
\* payment_intent.succeeded never finds no row.
C35_IntentHasItsRow ==
  /\ stripePI # "none" => payment.status # "none"
  /\ \A h \in Deliveries : hs[h].outcome # "notfound"

\* C36: a completed Payment row has a tx_hash, a block number and a
\* completion timestamp; a paid Cashout row has a completion timestamp and
\* a payout reference; a pending_payout Cashout row has a payout reference.
C36_TerminalRowsAreWhole ==
  /\ payment.status = "completed"
       => /\ payment.tx_hash # NoHash
          /\ payment.block_number # 0
          /\ payment.completed_at
  /\ \A id \in DOMAIN cashouts :
       /\ cashouts[id].status = "paid"
            => cashouts[id].completed_at /\ cashouts[id].payout_id_stripe # 0
       /\ cashouts[id].status = "pending_payout"
            => cashouts[id].payout_id_stripe # 0

\* A purchase was completed, and of the cashouts requested afterwards one
\* is paid and one awaits its payout.
C36_Witness ==
  /\ payment.status = "completed"
  /\ \E id \in DOMAIN cashouts : cashouts[id].status = "paid"
  /\ \E id \in DOMAIN cashouts : cashouts[id].status = "pending_payout"

C38_CompletedBatchIsFinal ==
  [][\A i \in DOMAIN payrolls :
       payrolls[i].status = "completed"
         => /\ payrolls'[i].status = "completed"
            /\ payrolls'[i].tx_hash = payrolls[i].tx_hash]_vars

\* C39: getPaymentStatus never regresses or resurrects a Payment: whatever
\* status Stripe reports, its update leaves a row that is completed,
\* failed or canceled as it is, and leaves a pending row pending while the
\* customer has not yet confirmed the intent.
C39_PollNeverRegresses ==
  [][\A k \in Polls :
       polls[k].pc = "update" /\ polls'[k].pc = "done"
         => /\ payment.status \in {"completed", "failed", "canceled"}
                 => payment'.status = payment.status
            /\ (/\ payment.status = "pending"
                /\ stripePI = "requires_payment_method"
                /\ emitted = {})
                 => payment'.status = "pending"]_vars

\* C40: requestCashout calls whose txHash strings denote the same
\* transaction and differ in letter case only are one deposit: the later
\* call finds the Cashout of the earlier one, so no two Cashout rows and
\* no two payouts exist for one transaction.
C40_CaseVariantsAreOneDeposit ==
  /\ \A i, j \in DOMAIN cashouts :
       i # j => Transaction(cashouts[i].tx_hash_onchain)
                  # Transaction(cashouts[j].tx_hash_onchain)
  /\ \A c, d \in Calls :
       (/\ c # d
        /\ rcs[c].payoutId # 0
        /\ rcs[d].payoutId # 0)
         => Transaction(rcs[c].txHash) # Transaction(rcs[d].txHash)

====
